---- MODULE Spec2Model ----
(***************************************************************************)
(* The load engine of mft_db (src/dags/tasks/loader.py) as a state machine. *)
(* One run of load_transformed_data is followed step by step: input check,  *)
(* validation, constraint relaxation, the entity, junction and breakpoint   *)
(* phases (one step per table), constraint restoration, verification and    *)
(* the top-level exception handler.  The database, polars and the           *)
(* interpreter are the environment: every database operation may fail, and  *)
(* a phase may raise out of its own error handling.                         *)
(***************************************************************************)
EXTENDS Integers, Sequences, FiniteSets, TLC

VARIABLES
    pc,                   \* position of the run inside load_transformed_data
    args,                 \* the arguments of the call
    transformed_df_dict,  \* the table set the run works on (key -> frame)
    results,              \* the result record built by the run
    phase_results,        \* the `results` dict local to the running phase
    idx,                  \* index of the next table of the running phase
    exc,                  \* the exception in flight, if any
    fk_role,              \* session_replication_role of the database
    db,                   \* rows per table: present before the run / inserted by it
    calls,                \* the constraint toggles, phases and verification, in call order
    handed,               \* table and records of the last bulk insert
    extracted,            \* the last result of extract_breakpoint_data
    faults,               \* operations that have failed so far
    raised,               \* the exceptions raised into load_transformed_data, in order
    common_df_dict,       \* transformer(): the table set extractor() returned
    input_df,             \* apply_transformations: its argument df
    transformations,      \* apply_transformations: the mapping, in insertion order
    col_idx,              \* apply_transformations: index of the next item of the mapping
    result_df,            \* apply_transformations: the frame being transformed
    applied,              \* the transformations attempted so far and how each ended
    max_retries,          \* connect_to_database: its argument max_retries
    attempt,              \* connect_to_database: the loop variable of range(max_retries)
    attempts,             \* connect_to_database: the outcomes of the attempts made, in order
    engine,               \* connect_to_database: what it has returned
    sleeps,               \* connect_to_database: the calls of time.sleep(retry_delay) so far
    connections,          \* connect_to_database: the test connection of each attempt
    context_params,       \* the parameters of the row a column default is computed for
    generated             \* the packaging numbers computed for that row, in order

transformer_vars == <<common_df_dict, input_df, transformations, col_idx, result_df, applied>>

connector_vars == <<max_retries, attempt, attempts, engine, sleeps, connections>>

\* the state outside the loader
defaults_vars == <<context_params, generated>>

\* the state outside the loader
outside_loader == <<transformer_vars, connector_vars, defaults_vars>>

vars == <<pc, args, transformed_df_dict, results, phase_results, idx, exc,
          fk_role, db, calls, handed, extracted, faults, raised, transformer_vars,
          connector_vars, defaults_vars>>

----------------------------------------------------------------------------
(* Bounds of the model *)

\* rows of a generated main table
MaxRows == 2
\* failing truncate / insert / count operations, or failing tables of
\* transformer(), in one run
MaxFaults == 1
\* rows each table holds before the run starts
MaxPre == 1
\* the largest max_retries connect_to_database is called with
MaxRetries == 3

----------------------------------------------------------------------------
(* Frames: a polars DataFrame is its schema (column -> dtype) and its rows *)
(* (column -> cell).  A cell is <<>> for null and <<v>> for a value; an    *)
(* Int64 value is an integer, a Utf8 value a sequence of characters, a     *)
(* Float64 value its number of thousandths, a List value a sequence.       *)

NULL == <<>>

Val(v) == <<v>>

Frame(cols, rows) == [cols |-> cols, rows |-> rows]

\* pl.DataFrame(): no columns, no rows
EmptyFrame == Frame(<<>>, <<>>)

is_empty(df) == Len(df.rows) = 0

columns(df) == DOMAIN df.cols

\* df.select(names)
select(df, names) ==
    Frame([c \in names |-> df.cols[c]],
          [i \in 1..Len(df.rows) |-> [c \in names |-> df.rows[i][c]]])

HasNull(row) == \E c \in DOMAIN row : row[c] = NULL

\* df.drop_nulls(): rows with a null in any column are removed
drop_nulls(df) == Frame(df.cols, SelectSeq(df.rows, LAMBDA r : ~HasNull(r)))

\* df[col].null_count()
null_count(df, col) == Cardinality({i \in 1..Len(df.rows) : df.rows[i][col] = NULL})

RECURSIVE KeepFirstBy(_, _)
\* the rows of s that are the first to carry their value on the columns `subset`
KeepFirstBy(s, subset) ==
    IF s = <<>> THEN <<>>
    ELSE LET front == KeepFirstBy(SubSeq(s, 1, Len(s) - 1), subset)
             last  == s[Len(s)]
         IN IF \E i \in 1..Len(front) :
                   \A c \in subset : front[i][c] = last[c]
            THEN front
            ELSE Append(front, last)

Orderings(s) ==
    {[i \in 1..Len(s) |-> s[p[i]]] : p \in Permutations(1..Len(s))}

\* unique with keep='last': one row per key, the last that carries it
unique_keep_last(df, subset) ==
    LET reversed == [i \in 1..Len(df.rows) |-> df.rows[Len(df.rows) + 1 - i]]
    IN {Frame(df.cols, o) : o \in Orderings(KeepFirstBy(reversed, subset))}

\* df.unique(subset, keep='first'): one row per key, the first that carries it;
\* maintain_order is left at its default, so the order of the result is any.
unique(df, subset) ==
    {Frame(df.cols, o) : o \in Orderings(KeepFirstBy(df.rows, subset))}

Digits == <<"0", "1", "2", "3", "4", "5", "6", "7", "8", "9">>

IsDigit(ch) == \E d \in 1..10 : Digits[d] = ch

DigitValue(ch) == (CHOOSE d \in 1..10 : Digits[d] = ch) - 1

RECURSIVE DigitsValue(_)
DigitsValue(s) ==
    IF s = <<>> THEN 0
    ELSE 10 * DigitsValue(SubSeq(s, 1, Len(s) - 1)) + DigitValue(s[Len(s)])

\* pl.col(c).cast(pl.Int64, strict=False) on one cell: a string is parsed as a
\* decimal number (leading zeros allowed) and is null when it is not one, a
\* float is truncated, null stays null.
cast_int64(dtype, cell) ==
    IF cell = NULL THEN NULL
    ELSE CASE dtype = "Int64"   -> cell
           [] dtype = "Utf8"    ->
                IF cell[1] # <<>> /\ \A i \in 1..Len(cell[1]) : IsDigit(cell[1][i])
                THEN Val(DigitsValue(cell[1]))
                ELSE NULL
           [] dtype = "Float64" -> Val(cell[1] \div 1000)
           [] OTHER             -> NULL

\* df.with_columns(pl.col(c).cast(pl.Int64, strict=False))
with_cast_int64(df, c) ==
    Frame([k \in DOMAIN df.cols |-> IF k = c THEN "Int64" ELSE df.cols[k]],
          [i \in 1..Len(df.rows) |->
              [k \in DOMAIN df.cols |->
                  IF k = c THEN cast_int64(df.cols[c], df.rows[i][k])
                  ELSE df.rows[i][k]]])

\* the dtypes polars casts to and from a number or a string; a List column
\* is one it refuses to cast
Castable(dtype) == dtype \in {"Int64", "Utf8", "Float64"}

RECURSIVE IntToDigits(_)
\* the decimal digits of a natural number
IntToDigits(n) ==
    IF n < 10 THEN << Digits[n + 1] >>
    ELSE Append(IntToDigits(n \div 10), Digits[(n % 10) + 1])

AllDigits(s) == \A i \in 1..Len(s) : IsDigit(s[i])

\* the thousandths of a string of at most three decimal digits after the point
FractionValue(s) ==
    CASE Len(s) = 0 -> 0
      [] Len(s) = 1 -> 100 * DigitsValue(s)
      [] Len(s) = 2 -> 10 * DigitsValue(s)
      [] OTHER      -> DigitsValue(SubSeq(s, 1, 3))

\* a string parsed as a float: digits, or digits with one point among them;
\* NULL when it is no number
ParseFloat(s) ==
    LET points == {i \in 1..Len(s) : s[i] = "."}
    IN IF points = {}
       THEN IF s # <<>> /\ AllDigits(s) THEN Val(1000 * DigitsValue(s)) ELSE NULL
       ELSE IF Cardinality(points) > 1 THEN NULL
       ELSE LET i == CHOOSE k \in points : TRUE
                whole == SubSeq(s, 1, i - 1)
                fraction == SubSeq(s, i + 1, Len(s))
            IN IF AllDigits(whole) /\ AllDigits(fraction) /\ Len(whole) + Len(fraction) > 0
               THEN Val(1000 * DigitsValue(whole) + FractionValue(fraction))
               ELSE NULL

\* a cast to Float64 that takes every number for a whole number
cast_float64_rescales(dtype, cell) ==
    IF cell = NULL THEN NULL
    ELSE CASE dtype \in {"Float64", "Int64"} -> Val(1000 * cell[1])
           [] dtype = "Utf8"                 -> ParseFloat(cell[1])
           [] OTHER                          -> NULL

\* pl.col(c).cast(pl.Float64, strict=False) on one cell
cast_float64(dtype, cell) ==
    IF cell = NULL THEN NULL
    ELSE CASE dtype = "Float64" -> cell
           [] dtype = "Int64"   -> Val(1000 * cell[1])
           [] dtype = "Utf8"    -> ParseFloat(cell[1])
           [] OTHER             -> NULL

\* .round(2) on one cell: to the nearest hundredth, a half away from zero
round_2(cell) ==
    IF cell = NULL THEN NULL ELSE Val(((cell[1] + 5) \div 10) * 10)

\* a float written as polars writes it: 1.0, 1.2, 1.24, 1.239
FloatToString(n) ==
    LET whole == IntToDigits(n \div 1000)
        f == n % 1000
        fraction == CASE f % 100 = 0 -> << Digits[(f \div 100) + 1] >>
                      [] f % 10 = 0  -> << Digits[(f \div 100) + 1], Digits[((f \div 10) % 10) + 1] >>
                      [] OTHER       -> << Digits[(f \div 100) + 1], Digits[((f \div 10) % 10) + 1],
                                           Digits[(f % 10) + 1] >>
    IN whole \o <<".">> \o fraction

\* pl.col(c).cast(pl.Utf8, strict=False) on one cell
cast_utf8(dtype, cell) ==
    IF cell = NULL THEN NULL
    ELSE CASE dtype = "Utf8"    -> cell
           [] dtype = "Int64"   -> Val(IntToDigits(cell[1]))
           [] dtype = "Float64" -> Val(FloatToString(cell[1]))
           [] OTHER             -> NULL

\* df.with_columns(<expression on column c>.alias(c)): column c gets dtype
\* and, row by row, the cell f computes from its cell
with_column(df, c, dtype, f(_)) ==
    Frame([k \in DOMAIN df.cols |-> IF k = c THEN dtype ELSE df.cols[k]],
          [i \in 1..Len(df.rows) |->
              [k \in DOMAIN df.cols |-> IF k = c THEN f(df.rows[i][k]) ELSE df.rows[i][k]]])

----------------------------------------------------------------------------
(* Text: a string is a sequence of characters over lower-case and upper-case *)
(* letters, digits, the space and special characters.                       *)

LowerLetters == <<"a", "b">>

UpperLetters == <<"A", "B">>

\* characters of special_chars
SpecialChars == {",", "-", "_", "."}

IsLower(ch) == \E i \in 1..Len(LowerLetters) : LowerLetters[i] = ch

IsUpper(ch) == \E i \in 1..Len(UpperLetters) : UpperLetters[i] = ch

IsSpace(ch) == ch = " "

IsAlphanumeric(ch) == IsLower(ch) \/ IsUpper(ch) \/ IsDigit(ch)

ToUpper(ch) ==
    IF IsLower(ch) THEN UpperLetters[CHOOSE i \in 1..Len(LowerLetters) : LowerLetters[i] = ch]
    ELSE ch

ToLower(ch) ==
    IF IsUpper(ch) THEN LowerLetters[CHOOSE i \in 1..Len(UpperLetters) : UpperLetters[i] = ch]
    ELSE ch

RECURSIVE Concat(_)
\* the pieces of a sequence of strings, joined
Concat(pieces) ==
    IF pieces = <<>> THEN <<>> ELSE Head(pieces) \o Concat(Tail(pieces))

\* step 2: str.replace_all("([a-z])([A-Z])", "$1 $2")
split_lower_camel(s) ==
    Concat([i \in 1..Len(s) |->
               IF i > 1 /\ IsLower(s[i - 1]) /\ IsUpper(s[i]) THEN <<" ", s[i]>> ELSE <<s[i]>>])

\* step 3: str.replace_all("([A-Z][^A-Z]*)", " $1")
split_upper_camel(s) ==
    Concat([i \in 1..Len(s) |-> IF IsUpper(s[i]) THEN <<" ", s[i]>> ELSE <<s[i]>>])

\* position i of s lies in a number: a digit, or a point between two digits
InNumber(s, i) ==
    /\ i \in 1..Len(s)
    /\ \/ IsDigit(s[i])
       \/ s[i] = "." /\ i > 1 /\ i < Len(s) /\ IsDigit(s[i - 1]) /\ IsDigit(s[i + 1])

\* step 4: str.replace_all("(\d+(?:\.\d+)?)", " $1 "), for numbers with one point
separate_numbers(s) ==
    Concat([i \in 1..Len(s) |->
               (IF InNumber(s, i) /\ ~InNumber(s, i - 1) THEN <<" ">> ELSE <<>>)
               \o <<s[i]>>
               \o (IF InNumber(s, i) /\ ~InNumber(s, i + 1) THEN <<" ">> ELSE <<>>)])

\* step 5: str.replace_all("[<special_chars>\n\t]", " ")
replace_special(s) ==
    [i \in 1..Len(s) |-> IF s[i] \in SpecialChars THEN " " ELSE s[i]]

\* step 6: str.replace_all("\s+", " ")
collapse_spaces(s) ==
    Concat([i \in 1..Len(s) |->
               IF IsSpace(s[i])
               THEN IF i > 1 /\ IsSpace(s[i - 1]) THEN <<>> ELSE <<" ">>
               ELSE <<s[i]>>])

\* step 7: str.strip_chars()
strip_chars(s) ==
    LET kept == {i \in 1..Len(s) : ~IsSpace(s[i])}
    IN IF kept = {} THEN <<>>
       ELSE SubSeq(s, CHOOSE i \in kept : \A k \in kept : i <= k,
                      CHOOSE i \in kept : \A k \in kept : i >= k)

\* step 8: str.to_titlecase(): upper case at the start and after a character
\* that is no letter or digit, lower case elsewhere
to_titlecase(s) ==
    [i \in 1..Len(s) |->
        IF i = 1 \/ ~IsAlphanumeric(s[i - 1]) THEN ToUpper(s[i]) ELSE ToLower(s[i])]

\* the chain of lines 258-280 on one value; step 1 (pinyin) changes Chinese
\* characters only, and the alphabet has none
clean_text(s) ==
    to_titlecase(strip_chars(collapse_spaces(replace_special(
        separate_numbers(split_upper_camel(split_lower_camel(s)))))))

\* the fallback chain of lines 290-296 on one value
basic_clean_text(s) ==
    to_titlecase(strip_chars(collapse_spaces(s)))

----------------------------------------------------------------------------
(* The schema *)

EntityTables == {"supplier_data", "part_data", "box_data", "pallet_data",
                 "model_data", "workshop_data", "line_data"}

JunctionTables == {"part_to_box", "box_to_pallet", "part_to_model", "part_to_line"}

BreakpointTables == {"breakpoint_data", "part_to_breakpoint"}

\* the tables verify_table_counts counts
Tables == EntityTables \cup JunctionTables \cup BreakpointTables

\* the tables that hold a foreign key to table t
Referencing(t) ==
    CASE t = "supplier_data"   -> {"part_data"}
      [] t = "part_data"       -> {"part_to_box", "part_to_model", "part_to_line",
                                   "part_to_breakpoint"}
      [] t = "box_data"        -> {"part_to_box", "box_to_pallet"}
      [] t = "pallet_data"     -> {"box_to_pallet"}
      [] t = "model_data"      -> {"part_to_model"}
      [] t = "workshop_data"   -> {"line_data"}
      [] t = "line_data"       -> {"part_to_line"}
      [] t = "breakpoint_data" -> {"part_to_breakpoint"}
      [] OTHER                 -> {}

RECURSIVE CascadeFrom(_, _)
CascadeFrom(frontier, seen) ==
    IF frontier = {} THEN seen
    ELSE LET next == UNION {Referencing(t) : t \in frontier} \ (seen \cup frontier)
         IN CascadeFrom(next, seen \cup frontier)

\* the tables TRUNCATE TABLE t ... CASCADE empties
Cascade(t) == CascadeFrom({t}, {})

\* TRUNCATE TABLE t RESTART IDENTITY CASCADE, committed
truncate_table(d, t) ==
    [u \in DOMAIN d |-> IF u \in Cascade(t) THEN [old |-> 0, new |-> 0] ELSE d[u]]

\* connection.execute(insert_stmt, records), committed: len(records) new rows
bulk_insert_dataframe(d, t, records) ==
    [d EXCEPT ![t].new = @ + Len(records)]

\* SELECT COUNT(*) FROM t
count_rows(d, t) == d[t].old + d[t].new

----------------------------------------------------------------------------
(* The loader's tables of tables *)

required_keys == {"transformed_main_df", "transformed_part_df",
                  "transformed_supplier_df", "transformed_box_df",
                  "transformed_pallet_df", "transformed_model_df",
                  "transformed_workshop_df", "line_df"}

critical_keys == <<"transformed_main_df", "transformed_part_df">>

\* the entity tables with part_data loaded before supplier_data
entity_mapping_part_first ==
    << [df_key |-> "transformed_part_df",     table |-> "part_data",     pk |-> "part_id"],
       [df_key |-> "transformed_supplier_df", table |-> "supplier_data", pk |-> "supplier_id"],
       [df_key |-> "transformed_box_df",      table |-> "box_data",      pk |-> "box_id"],
       [df_key |-> "transformed_pallet_df",   table |-> "pallet_data",   pk |-> "pallet_id"],
       [df_key |-> "transformed_model_df",    table |-> "model_data",    pk |-> "model_id"],
       [df_key |-> "transformed_workshop_df", table |-> "workshop_data", pk |-> "workshop_id"],
       [df_key |-> "line_df",                 table |-> "line_data",     pk |-> "line_id"] >>

entity_mapping ==
    << [df_key |-> "transformed_supplier_df", table |-> "supplier_data", pk |-> "supplier_id"],
       [df_key |-> "transformed_part_df",     table |-> "part_data",     pk |-> "part_id"],
       [df_key |-> "transformed_box_df",      table |-> "box_data",      pk |-> "box_id"],
       [df_key |-> "transformed_pallet_df",   table |-> "pallet_data",   pk |-> "pallet_id"],
       [df_key |-> "transformed_model_df",    table |-> "model_data",    pk |-> "model_id"],
       [df_key |-> "transformed_workshop_df", table |-> "workshop_data", pk |-> "workshop_id"],
       [df_key |-> "line_df",                 table |-> "line_data",     pk |-> "line_id"] >>

junction_definitions ==
    << [table |-> "part_to_box",   fks |-> <<"part_id", "box_id">>],
       [table |-> "box_to_pallet", fks |-> <<"box_id", "pallet_id">>],
       [table |-> "part_to_model", fks |-> <<"part_id", "model_id">>],
       [table |-> "part_to_line",  fks |-> <<"part_id", "line_id">>] >>

breakpoint_cols == <<"breakpoint_date", "old_part_id", "new_part_id">>

\* the keys under which transformer() stores its tables
transformer_keys == {"transformed_main_df", "transformed_supplier_df",
                     "transformed_part_df", "transformed_box_df",
                     "transformed_pallet_df", "transformed_model_df",
                     "transformed_workshop_df", "transformed_line_df"}

Range(s) == {s[i] : i \in 1..Len(s)}

----------------------------------------------------------------------------
(* Inputs of a run *)

EntityOf(key) == CHOOSE e \in Range(entity_mapping) : e.df_key = key

EntityKeys == {e.df_key : e \in Range(entity_mapping)}

IntRow(names, values) == [c \in Range(names) |-> Val(values[CHOOSE i \in 1..Len(names) : names[i] = c])]

\* An entity table by kind: "good" has three rows, two of them with the same
\* primary key; "empty" has the columns and no row; "nopk" lacks the
\* primary-key column; "nullpk" has a null primary key in its second row.
EntityFrame(kind, pk) ==
    CASE kind = "good" ->
           Frame([c \in {pk, "tag"} |-> "Int64"],
                 << IntRow(<<pk, "tag">>, <<1, 1>>),
                    IntRow(<<pk, "tag">>, <<1, 2>>),
                    IntRow(<<pk, "tag">>, <<2, 3>>) >>)
      [] kind = "empty" ->
           Frame([c \in {pk, "tag"} |-> "Int64"], <<>>)
      [] kind = "nopk" ->
           Frame([c \in {"tag"} |-> "Int64"], << IntRow(<<"tag">>, <<1>>) >>)
      [] kind = "nullpk" ->
           Frame([c \in {pk, "tag"} |-> "Int64"],
                 << IntRow(<<pk, "tag">>, <<1, 1>>),
                    [c \in {pk, "tag"} |-> IF c = pk THEN NULL ELSE Val(2)] >>)

EntityKinds == {"good", "empty", "nopk", "nullpk"}

JunctionCols == {"part_id", "box_id", "pallet_id", "model_id", "line_id"}

\* main table with integer keys: every junction and the breakpoint columns,
\* the first two rows equal on every key
MainInt ==
    LET names == <<"part_id", "box_id", "pallet_id", "model_id", "line_id",
                   "breakpoint_date", "old_part_id", "new_part_id">>
    IN Frame([c \in Range(names) |-> "Int64"],
             << IntRow(names, <<1, 1, 1, 1, 1, 7, 1, 2>>),
                IntRow(names, <<1, 1, 1, 1, 1, 7, 1, 2>>),
                IntRow(names, <<2, 2, 1, 1, 1, 8, 2, 1>>) >>)

StrRow(p, b) == [c \in {"part_id", "box_id"} |-> IF c = "part_id" THEN Val(p) ELSE Val(b)]

\* main table of the part_to_box scenario: string identifiers (P1,B1), (P1,B1), (P2,B2)
MainStr ==
    Frame([c \in {"part_id", "box_id"} |-> "Utf8"],
          << StrRow(<<"P", "1">>, <<"B", "1">>),
             StrRow(<<"P", "1">>, <<"B", "1">>),
             StrRow(<<"P", "2">>, <<"B", "2">>) >>)

\* main table without any key column
MainNoKeys == Frame([c \in {"tag"} |-> "Int64"], << IntRow(<<"tag">>, <<1>>) >>)

\* main table with the columns of MainInt and no row
MainEmpty == Frame(MainInt.cols, <<>>)

MainSamples == {MainInt, MainStr, MainNoKeys, MainEmpty}

\* The table set handed to the loader: the part table of kind partKind, the
\* other entity tables of kind restKind ("missing": their keys are absent),
\* the main table main ("missing": its key is absent).
InputDict(partKind, restKind, main, mainPresent) ==
    LET keys == {k \in EntityKeys :
                    IF k = "transformed_part_df" THEN partKind # "missing"
                    ELSE restKind # "missing"}
                \cup (IF mainPresent THEN {"transformed_main_df"} ELSE {})
    IN [k \in keys |->
           IF k = "transformed_main_df" THEN main
           ELSE EntityFrame(IF k = "transformed_part_df" THEN partKind ELSE restKind,
                            EntityOf(k).pk)]

InputDicts ==
    {InputDict(pk, rk, m, TRUE) :
        pk \in EntityKinds \cup {"missing"}, rk \in EntityKinds \cup {"missing"},
        m \in MainSamples}
    \cup {InputDict("good", "good", MainEmpty, FALSE)}

\* what transformer() returns: one table per extractor table, under the
\* transformed_<name> keys, with the spreadsheet's upper-case columns
TransformerOutput ==
    [k \in transformer_keys |->
        Frame([c \in {"PART_NUMBER"} |-> "Utf8"],
              << [c \in {"PART_NUMBER"} |-> Val(<<"7">>)] >>)]

NoDict == <<>>

\* the calls of load_transformed_data(engine, transformed_df_dict,
\* truncate_before_load, use_transformer); `given` tells a dict, another
\* object or None as transformed_df_dict
Calls ==
    {[given |-> "dict", dict |-> d, truncate_before_load |-> t, use_transformer |-> TRUE] :
        d \in InputDicts, t \in BOOLEAN}
    \cup {[given |-> g, dict |-> NoDict, truncate_before_load |-> t, use_transformer |-> u] :
        g \in {"other", "none"}, t \in {TRUE}, u \in BOOLEAN}

NoExc == [kind |-> "none", msg |-> "None"]

NoHanded == [table |-> "None", records |-> <<>>]

NoExtract == [breakpoint_df |-> EmptyFrame, part_to_breakpoint_df |-> EmptyFrame]

InitResults ==
    [success |-> FALSE, record_counts |-> <<>>, error |-> "None", step_results |-> <<>>]

InitDb(pre) == [t \in Tables |-> [old |-> pre, new |-> 0]]

\* no transformation is under way
TransformerIdle ==
    /\ common_df_dict = <<>>
    /\ input_df = EmptyFrame
    /\ transformations = <<>>
    /\ col_idx = 1
    /\ result_df = EmptyFrame
    /\ applied = <<>>

ConnectorIdle ==
    /\ max_retries = 0
    /\ attempt = 0
    /\ attempts = <<>>
    /\ engine = "None"
    /\ sleeps = 0
    /\ connections = <<>>

NoParams == [kind |-> "None"]

DefaultsIdle ==
    /\ context_params = NoParams
    /\ generated = <<>>

OutsideLoaderIdle == TransformerIdle /\ ConnectorIdle /\ DefaultsIdle

Init ==
    /\ pc = "start"
    /\ args \in Calls
    /\ transformed_df_dict = args.dict
    /\ results = InitResults
    /\ phase_results = <<>>
    /\ idx = 1
    /\ exc = NoExc
    /\ fk_role = "origin"
    /\ \E pre \in {0, MaxPre} : db = InitDb(pre)
    /\ calls = <<>>
    /\ handed = NoHanded
    /\ extracted = NoExtract
    /\ faults = 0
    /\ raised = <<>>
    /\ OutsideLoaderIdle

----------------------------------------------------------------------------
(* Helpers of the run *)

\* d[k] = v of a Python dict
Put(d, k, v) == [x \in (DOMAIN d) \cup {k} |-> IF x = k THEN v ELSE d[x]]

Raise(kind, msg) == [kind |-> kind, msg |-> msg]

\* What the database does with the truncate and the insert of one table load:
\* both succeed, the truncate raises, or the insert raises and is rolled back.
\* (A table that does not exist makes truncate_table return early and the
\* insert raise, which leaves the database as a raising truncate does.)
TableOutcomes ==
    {"ok"} \cup (IF faults < MaxFaults THEN {"truncate_raises", "insert_raises"} ELSE {})

Returned(count, d, h, fault) ==
    [threw |-> FALSE, count |-> count, db |-> d, handed |-> h, fault |-> fault]

Raised(d, h, fault) ==
    [threw |-> TRUE, count |-> 0, db |-> d, handed |-> h, fault |-> fault]

\* `if truncate: truncate_table(engine, table)` followed by
\* `bulk_insert_dataframe(engine, df, table, model_class)` under outcome out
truncate_then_insert(table, records, truncate, out) ==
    LET h == [table |-> table, records |-> records]
        truncated == IF truncate THEN truncate_table(db, table) ELSE db
    IN CASE out = "truncate_raises" /\ truncate -> Raised(db, handed, 1)
         [] records = <<>>                      -> Returned(0, truncated, handed, 0)
         [] out = "insert_raises"               -> Raised(truncated, h, 1)
         [] OTHER ->
              Returned(Len(records), bulk_insert_dataframe(truncated, table, records), h, 0)

validate_transformed_data(dict) ==
    /\ required_keys \subseteq DOMAIN dict
    /\ \A i \in 1..Len(critical_keys) : ~is_empty(dict[critical_keys[i]])

\* the possible results of load_entity_table(engine, df, model_class, primary_key, truncate)
load_entity_table(df, e, truncate, out) ==
    IF is_empty(df) THEN {Returned(0, db, handed, 0)}
    ELSE IF e.pk \notin columns(df) THEN {Raised(db, handed, 0)}
    ELSE IF null_count(df, e.pk) > 0 THEN {Raised(db, handed, 0)}
    ELSE {truncate_then_insert(e.table, u.rows, truncate, out) : u \in unique(df, {e.pk})}

RECURSIVE cast_foreign_keys(_, _)
\* the loop that casts every foreign key column that is not Int64
cast_foreign_keys(df, fks) ==
    IF fks = <<>> THEN df
    ELSE cast_foreign_keys(
             IF df.cols[Head(fks)] # "Int64" THEN with_cast_int64(df, Head(fks)) ELSE df,
             Tail(fks))

\* load_junction_table with the truncate moved before the test for missing columns
load_junction_table_truncates_first(main_df, j, truncate, out) ==
    IF ~(Range(j.fks) \subseteq columns(main_df))
    THEN {Returned(0, IF truncate THEN truncate_table(db, j.table) ELSE db, handed, 0)}
    ELSE
      { IF is_empty(u) THEN Returned(0, db, handed, 0)
        ELSE LET junction_df == drop_nulls(cast_foreign_keys(u, j.fks))
             IN IF is_empty(junction_df) THEN Returned(0, db, handed, 0)
                ELSE truncate_then_insert(j.table, junction_df.rows, truncate, out)
        : u \in unique(drop_nulls(select(main_df, Range(j.fks))), Range(j.fks)) }

\* the possible results of load_junction_table(engine, main_df, model_class, foreign_keys, truncate)
load_junction_table(main_df, j, truncate, out) ==
    IF ~(Range(j.fks) \subseteq columns(main_df)) THEN {Returned(0, db, handed, 0)}
    ELSE
      { IF is_empty(u) THEN Returned(0, db, handed, 0)
        ELSE LET junction_df == drop_nulls(cast_foreign_keys(u, j.fks))
             IN IF is_empty(junction_df) THEN Returned(0, db, handed, 0)
                ELSE truncate_then_insert(j.table, junction_df.rows, truncate, out)
        : u \in unique(drop_nulls(select(main_df, Range(j.fks))), Range(j.fks)) }

\* enumerate(...) without its start value 1
breakpoint_records_from_zero(rows) ==
    [i \in 1..Len(rows) |->
        [breakpoint_id   |-> i - 1,
         breakpoint_date |-> rows[i]["breakpoint_date"],
         description     |-> <<rows[i]["old_part_id"], rows[i]["new_part_id"]>>,
         old_part_id     |-> rows[i]["old_part_id"],
         new_part_id     |-> rows[i]["new_part_id"]]]

\* the rows extract_breakpoint_data builds from the unique triples
breakpoint_records(rows) ==
    [i \in 1..Len(rows) |->
        [breakpoint_id   |-> i,
         breakpoint_date |-> rows[i]["breakpoint_date"],
         description     |-> <<rows[i]["old_part_id"], rows[i]["new_part_id"]>>,
         old_part_id     |-> rows[i]["old_part_id"],
         new_part_id     |-> rows[i]["new_part_id"]]]

part_to_breakpoint_records(rows) ==
    [k \in 1..(2 * Len(rows)) |->
        LET i == (k + 1) \div 2
        IN IF k % 2 = 1
           THEN [part_id |-> rows[i]["old_part_id"], breakpoint_id |-> i,
                 is_active_before_breakpoint |-> TRUE,
                 is_active_after_breakpoint |-> FALSE]
           ELSE [part_id |-> rows[i]["new_part_id"], breakpoint_id |-> i,
                 is_active_before_breakpoint |-> FALSE,
                 is_active_after_breakpoint |-> TRUE]]

\* the schemas pl.DataFrame(records) infers
BreakpointSchema ==
    [c \in {"breakpoint_id", "breakpoint_date", "old_part_id", "new_part_id"} |-> "Int64"]
    @@ [c \in {"description"} |-> "Utf8"]

PartToBreakpointSchema ==
    [c \in {"part_id", "breakpoint_id"} |-> "Int64"]
    @@ [c \in {"is_active_before_breakpoint", "is_active_after_breakpoint"} |-> "Boolean"]

\* the possible results of extract_breakpoint_data(main_df)
extract_breakpoint_data(main_df) ==
    IF ~(Range(breakpoint_cols) \subseteq columns(main_df)) THEN {NoExtract}
    ELSE
      { IF is_empty(u) THEN NoExtract
        ELSE [breakpoint_df         |-> Frame(BreakpointSchema, breakpoint_records(u.rows)),
              part_to_breakpoint_df |->
                  Frame(PartToBreakpointSchema, part_to_breakpoint_records(u.rows))]
        : u \in unique(drop_nulls(select(main_df, Range(breakpoint_cols))),
                       Range(breakpoint_cols)) }

\* SELECT COUNT(*) per table; a table in `uncountable` raises and counts 0
verify_table_counts(uncountable) ==
    [t \in Tables |-> IF t \in uncountable THEN 0 ELSE count_rows(db, t)]

RECURSIVE SumOver(_, _)
SumOver(f, S) ==
    IF S = {} THEN 0
    ELSE LET x == CHOOSE y \in S : TRUE IN f[x] + SumOver(f, S \ {x})

\* sum(results['record_counts'].values())
total_records(counts) == SumOver(counts, DOMAIN counts)

----------------------------------------------------------------------------
(* The run of load_transformed_data, step by step *)

Called(name) == Append(calls, name)

\* `raise e` into the body of load_transformed_data
Throw(e) ==
    /\ exc' = e
    /\ raised' = Append(raised, e)

\* lines 688-720: the shape of the call is checked and, when no table set
\* is given, transformer() supplies it or raises
check_input ==
    /\ UNCHANGED outside_loader
    /\ pc = "start"
    /\ UNCHANGED <<args, results, phase_results, idx, fk_role, db, calls, handed,
                   extracted, faults>>
    /\ \/ /\ args.given = "dict"
          /\ pc' = "validate"
          /\ UNCHANGED <<transformed_df_dict, exc, raised>>
       \/ /\ args.given = "other"
          /\ Throw(Raise("Exception", "transformed_df_dict should be dict"))
          /\ pc' = "except"
          /\ UNCHANGED transformed_df_dict
       \/ /\ args.given = "none" /\ args.use_transformer
          /\ transformed_df_dict' = TransformerOutput
          /\ pc' = "validate"
          /\ UNCHANGED <<exc, raised>>
       \/ /\ args.given = "none" /\ args.use_transformer
          /\ Throw(Raise("Exception", "transformer() failed"))
          /\ pc' = "except"
          /\ UNCHANGED transformed_df_dict
       \/ /\ args.given = "none" /\ ~args.use_transformer
          /\ Throw(Raise("Exception", "No data provided"))
          /\ pc' = "except"
          /\ UNCHANGED transformed_df_dict

\* the validation with `return results` left out of its failing branch
validate_input_without_return ==
    /\ UNCHANGED outside_loader
    /\ pc = "validate"
    /\ IF validate_transformed_data(transformed_df_dict)
       THEN UNCHANGED results
       ELSE results' = [results EXCEPT !.error = "Data validation failed"]
    /\ pc' = "disable"
    /\ UNCHANGED <<args, transformed_df_dict, phase_results, idx, exc, fk_role, db,
                   calls, handed, extracted, faults, raised>>

\* lines 722-725
validate_input ==
    /\ UNCHANGED outside_loader
    /\ pc = "validate"
    /\ IF validate_transformed_data(transformed_df_dict)
       THEN /\ pc' = "disable"
            /\ UNCHANGED results
       ELSE /\ results' = [results EXCEPT !.error = "Data validation failed"]
            /\ pc' = "returned"
    /\ UNCHANGED <<args, transformed_df_dict, phase_results, idx, exc, fk_role, db,
                   calls, handed, extracted, faults, raised>>

\* lines 727-733: disable_foreign_keys swallows its own failure; the entity
\* phase is entered
disable_foreign_keys ==
    /\ UNCHANGED outside_loader
    /\ pc = "disable"
    /\ \/ fk_role' = "replica"
       \/ UNCHANGED fk_role
    /\ calls' = Called("disable_foreign_keys") \o <<"load_all_entity_tables">>
    /\ pc' = "entity"
    /\ idx' = 1
    /\ phase_results' = <<>>
    /\ UNCHANGED <<args, transformed_df_dict, results, exc, db, handed, extracted, faults, raised>>

\* lines 403-418 and 736-745: one turn of the loop of load_all_entity_tables;
\* after the last turn the phase returns and the junction phase is entered
load_all_entity_tables ==
    /\ UNCHANGED outside_loader
    /\ pc = "entity"
    /\ LET e == entity_mapping[idx]
           last == idx = Len(entity_mapping)
       IN /\ IF e.df_key \in DOMAIN transformed_df_dict
             THEN \E out \in TableOutcomes :
                  \E r \in load_entity_table(transformed_df_dict[e.df_key], e,
                                             args.truncate_before_load, out) :
                     LET res == Put(phase_results, e.table, r.count)
                     IN /\ phase_results' = IF last THEN <<>> ELSE res
                        /\ results' = IF last
                                      THEN [results EXCEPT !.step_results =
                                               Put(@, "entity_tables", res)]
                                      ELSE results
                        /\ db' = r.db
                        /\ handed' = r.handed
                        /\ faults' = faults + r.fault
             ELSE /\ phase_results' = IF last THEN <<>> ELSE phase_results
                  /\ results' = IF last
                                THEN [results EXCEPT !.step_results =
                                         Put(@, "entity_tables", phase_results)]
                                ELSE results
                  /\ UNCHANGED <<db, handed, faults>>
          /\ IF last
             THEN /\ pc' = "junction"
                  /\ idx' = 1
                  /\ calls' = Called("load_all_junction_tables")
             ELSE /\ idx' = idx + 1
                  /\ UNCHANGED <<pc, calls>>
    /\ UNCHANGED <<args, transformed_df_dict, exc, fk_role, extracted, raised>>

\* lines 494-519 and 745-752: the emptiness test, or one turn of the loop of
\* load_all_junction_tables; after the last turn the breakpoint phase is entered
load_all_junction_tables ==
    /\ UNCHANGED outside_loader
    /\ pc = "junction"
    /\ LET main_df == transformed_df_dict["transformed_main_df"]
           j == junction_definitions[idx]
           last == idx = Len(junction_definitions)
       IN IF is_empty(main_df)
          THEN /\ results' = [results EXCEPT !.step_results =
                                 Put(@, "junction_tables", <<>>)]
               /\ pc' = "breakpoint"
               /\ calls' = Called("load_breakpoint_data")
               /\ UNCHANGED <<phase_results, idx, db, handed, faults>>
          ELSE /\ \E out \in TableOutcomes :
                  \E r \in load_junction_table(main_df, j, args.truncate_before_load, out) :
                     LET res == Put(phase_results, j.table, r.count)
                     IN /\ phase_results' = IF last THEN <<>> ELSE res
                        /\ results' = IF last
                                      THEN [results EXCEPT !.step_results =
                                               Put(@, "junction_tables", res)]
                                      ELSE results
                        /\ db' = r.db
                        /\ handed' = r.handed
                        /\ faults' = faults + r.fault
               /\ IF last
                  THEN /\ pc' = "breakpoint"
                       /\ idx' = 1
                       /\ calls' = Called("load_breakpoint_data")
                  ELSE /\ idx' = idx + 1
                       /\ UNCHANGED <<pc, calls>>
    /\ UNCHANGED <<args, transformed_df_dict, exc, fk_role, extracted, raised>>

BothZero == [t \in BreakpointTables |-> 0]

\* the breakpoint phase followed by the verification at once
breakpoint_phase_returns_to_verify(res) ==
    /\ results' = [results EXCEPT !.step_results = Put(@, "breakpoint_data", res)]
    /\ phase_results' = <<>>
    /\ pc' = "verify"

\* load_breakpoint_data returns res to line 750
breakpoint_phase_returns(res) ==
    /\ results' = [results EXCEPT !.step_results = Put(@, "breakpoint_data", res)]
    /\ phase_results' = <<>>
    /\ pc' = "finally"

\* lines 592-607: extraction, then truncate and insert of breakpoint_data
load_breakpoint_data ==
    /\ UNCHANGED outside_loader
    /\ pc = "breakpoint"
    /\ \E x \in extract_breakpoint_data(transformed_df_dict["transformed_main_df"]) :
          /\ extracted' = x
          /\ IF is_empty(x.breakpoint_df)
             THEN /\ breakpoint_phase_returns(BothZero)
                  /\ UNCHANGED <<db, handed, faults>>
             ELSE \E out \in TableOutcomes :
                    LET r == truncate_then_insert("breakpoint_data", x.breakpoint_df.rows,
                                                  args.truncate_before_load, out)
                    IN /\ db' = r.db
                       /\ handed' = r.handed
                       /\ faults' = faults + r.fault
                       /\ IF r.threw
                          THEN breakpoint_phase_returns(BothZero)
                          ELSE /\ phase_results' = Put(<<>>, "breakpoint_data", r.count)
                               /\ pc' = "part_to_breakpoint"
                               /\ UNCHANGED results
    /\ UNCHANGED <<args, transformed_df_dict, idx, exc, fk_role, calls, raised>>

\* lines 609-625: truncate and insert of part_to_breakpoint, and the return
load_part_to_breakpoint ==
    /\ UNCHANGED outside_loader
    /\ pc = "part_to_breakpoint"
    /\ IF is_empty(extracted.part_to_breakpoint_df)
       THEN /\ breakpoint_phase_returns(phase_results)
            /\ UNCHANGED <<db, handed, faults>>
       ELSE \E out \in TableOutcomes :
              LET r == truncate_then_insert("part_to_breakpoint",
                                            extracted.part_to_breakpoint_df.rows,
                                            args.truncate_before_load, out)
              IN /\ db' = r.db
                 /\ handed' = r.handed
                 /\ faults' = faults + r.fault
                 /\ breakpoint_phase_returns(
                        IF r.threw THEN BothZero
                        ELSE Put(phase_results, "part_to_breakpoint", r.count))
    /\ UNCHANGED <<args, transformed_df_dict, idx, exc, fk_role, calls, extracted, raised>>

\* the loading phases without the finally clause: a raising phase leaves the
\* function, or reaches the handler, with no call of enable_foreign_keys
phase_raises_without_finally ==
    /\ UNCHANGED outside_loader
    /\ pc \in {"entity", "junction", "breakpoint"}
    /\ \E kind \in {"Exception", "BaseException"} :
          /\ Throw(Raise(kind, pc))
          /\ pc' = IF kind = "Exception" THEN "except" ELSE "propagated"
    /\ UNCHANGED <<args, transformed_df_dict, results, phase_results, idx, fk_role, db,
                   calls, handed, extracted, faults>>

\* A loading phase raises out of its own error handling (from the code
\* around its per-table try blocks, or an exception that is no Exception):
\* the inner try block of lines 730-754 is left for its finally clause.
phase_raises ==
    /\ UNCHANGED outside_loader
    /\ pc \in {"entity", "junction", "breakpoint"}
    /\ \E kind \in {"Exception", "BaseException"} :
          Throw(Raise(kind, pc))
    /\ pc' = "finally"
    /\ UNCHANGED <<args, transformed_df_dict, results, phase_results, idx, fk_role, db,
                   calls, handed, extracted, faults>>

\* a finally clause that restores nothing: restoration is left to the handler
enable_foreign_keys_only_on_error ==
    /\ UNCHANGED outside_loader
    /\ pc = "finally"
    /\ pc' = CASE exc.kind = "none"      -> "verify"
               [] exc.kind = "Exception" -> "except"
               [] OTHER                  -> "propagated"
    /\ UNCHANGED <<args, transformed_df_dict, results, phase_results, idx, db, handed,
                   extracted, faults, exc, raised, fk_role, calls>>

\* lines 756-758: the finally clause calls enable_foreign_keys, which
\* re-raises its failure; an exception raised here replaces the one in flight
enable_foreign_keys ==
    /\ UNCHANGED outside_loader
    /\ pc = "finally"
    /\ calls' = Called("enable_foreign_keys")
    /\ \/ /\ fk_role' = "origin"
          /\ pc' = CASE exc.kind = "none"      -> "verify"
                     [] exc.kind = "Exception" -> "except"
                     [] OTHER                  -> "propagated"
          /\ UNCHANGED <<exc, raised>>
       \/ /\ Throw(Raise("Exception", "enable_foreign_keys failed"))
          /\ pc' = "except"
          /\ UNCHANGED fk_role
    /\ UNCHANGED <<args, transformed_df_dict, results, phase_results, idx, db, handed,
                   extracted, faults>>

\* lines 760-773 and 786: the tables are counted and success is decided
verify_and_return ==
    /\ UNCHANGED outside_loader
    /\ pc = "verify"
    /\ calls' = Called("verify_table_counts")
    /\ \E counts \in
            {verify_table_counts(u) :
                u \in {v \in SUBSET Tables : Cardinality(v) <= MaxFaults - faults}}
            \cup (IF faults < MaxFaults THEN {<<>>} ELSE {}) :
          /\ results' = [results EXCEPT !.record_counts = counts,
                                        !.success = total_records(counts) > 0]
          /\ faults' = IF counts = verify_table_counts({}) THEN faults ELSE faults + 1
    /\ pc' = "returned"
    /\ UNCHANGED <<args, transformed_df_dict, phase_results, idx, exc, fk_role, db,
                   handed, extracted, raised>>

\* a handler that logs and re-raises instead of returning the result
handle_exception_reraises ==
    /\ UNCHANGED outside_loader
    /\ pc = "except"
    /\ results' = [results EXCEPT !.error = exc.msg]
    /\ calls' = Called("enable_foreign_keys")
    /\ \/ fk_role' = "origin"
       \/ UNCHANGED fk_role
    /\ pc' = "propagated"
    /\ UNCHANGED <<args, transformed_df_dict, phase_results, idx, exc, db, handed,
                   extracted, faults, raised>>

\* lines 775-786: the top-level handler stores the message, calls
\* enable_foreign_keys again and swallows its failure
handle_exception ==
    /\ UNCHANGED outside_loader
    /\ pc = "except"
    /\ results' = [results EXCEPT !.error = exc.msg]
    /\ calls' = Called("enable_foreign_keys")
    /\ \/ fk_role' = "origin"
       \/ UNCHANGED fk_role
    /\ pc' = "returned"
    /\ UNCHANGED <<args, transformed_df_dict, phase_results, idx, exc, db, handed,
                   extracted, faults, raised>>

Next ==
    \/ check_input
    \/ validate_input
    \/ disable_foreign_keys
    \/ load_all_entity_tables
    \/ load_all_junction_tables
    \/ load_breakpoint_data
    \/ load_part_to_breakpoint
    \/ phase_raises
    \/ enable_foreign_keys
    \/ verify_and_return
    \/ handle_exception

Spec == Init /\ [][Next]_vars

----------------------------------------------------------------------------
(* The transformation functions of transformer.py.  Each is the set of its  *)
(* possible results on (df, col): polars refuses to cast a List column, and  *)
(* raises ComputeError or another exception class for it.                    *)

\* the function returns frame f; `how` tells the path it took
Gives(f, how) == [threw |-> FALSE, df |-> f, how |-> how]

\* the function raises an exception it does not catch itself
Throws(f) == [threw |-> TRUE, df |-> f, how |-> "raised"]

convert_to_int64(df, col) ==
    IF col \notin columns(df) THEN {Gives(df, "absent")}
    ELSE IF Castable(df.cols[col]) THEN {Gives(with_cast_int64(df, col), "converted")}
    ELSE {Gives(df, "unchanged"), Throws(df)}

convert_to_string(df, col) ==
    IF col \notin columns(df) THEN {Gives(df, "absent")}
    ELSE IF Castable(df.cols[col])
         THEN {Gives(with_column(df, col, "Utf8", LAMBDA c : cast_utf8(df.cols[col], c)),
                     "converted")}
    ELSE {Gives(df, "unchanged"), Throws(df)}

convert_to_float(df, col) ==
    IF col \notin columns(df) THEN {Gives(df, "absent")}
    ELSE IF Castable(df.cols[col])
         THEN {Gives(with_column(df, col, "Float64",
                                 LAMBDA c : round_2(cast_float64(df.cols[col], c))),
                     "converted")}
    ELSE {Gives(with_column(df, col, "Float64", LAMBDA c : NULL), "nulled"), Throws(df)}

\* the full chain may fail on a string column (ComputeError); the fallback
\* chain then runs.  On another column both chains raise.
clean_text_column(df, col) ==
    IF col \notin columns(df) THEN {Gives(df, "absent")}
    ELSE IF df.cols[col] = "Utf8"
         THEN {Gives(with_column(df, col, "Utf8",
                                 LAMBDA c : IF c = NULL THEN NULL ELSE Val(clean_text(c[1]))),
                     "converted"),
               Gives(with_column(df, col, "Utf8",
                                 LAMBDA c : IF c = NULL THEN NULL ELSE Val(basic_clean_text(c[1]))),
                     "fallback")}
    ELSE {Gives(df, "unchanged"), Throws(df)}

Functions == {"convert_to_int64", "convert_to_string", "convert_to_float", "clean_text_column"}

\* func(df, col)
Transform(func, df, col) ==
    CASE func = "convert_to_int64"  -> convert_to_int64(df, col)
      [] func = "convert_to_string" -> convert_to_string(df, col)
      [] func = "convert_to_float"  -> convert_to_float(df, col)
      [] OTHER                      -> clean_text_column(df, col)

Attempt(col, func, how) == [col |-> col, func |-> func, how |-> how]

\* lines 333-364: one turn of the loop of apply_transformations; after the
\* last item the function returns result_df
apply_transformations ==
    /\ pc = "apply_transformations"
    /\ LET item == transformations[col_idx]
       IN IF item.col \notin columns(result_df)
          THEN /\ applied' = Append(applied, Attempt(item.col, item.func, "skipped"))
               /\ UNCHANGED result_df
          ELSE \E r \in Transform(item.func, result_df, item.col) :
                  /\ result_df' = IF r.threw THEN result_df ELSE r.df
                  /\ applied' = Append(applied, Attempt(item.col, item.func, r.how))
    /\ col_idx' = col_idx + 1
    /\ pc' = IF col_idx = Len(transformations) THEN "transformed" ELSE pc
    /\ UNCHANGED <<args, transformed_df_dict, results, phase_results, idx, exc, fk_role, db,
                   calls, handed, extracted, faults, raised,
                   common_df_dict, input_df, transformations, connector_vars, defaults_vars>>

----------------------------------------------------------------------------
(* transformer(): the eight mappings and the loop over the tables.  A column *)
(* name is the sequence of its parts between underscores: PART_WEIGHT_KG is  *)
(* <<"PART", "WEIGHT", "KG">>.                                               *)

\* one item of a mapping {column: function}
Item(col, func) == [col |-> col, func |-> func]

main_df_transformations ==
    << Item(<<"PART", "NUMBER">>, "convert_to_string"),
       Item(<<"PART", "NAME">>, "clean_text_column"),
       Item(<<"PART", "WEIGHT", "KG">>, "convert_to_float"),
       Item(<<"PART", "PER", "VEHICLE">>, "convert_to_int64"),
       Item(<<"CONFIGURATION">>, "convert_to_string"),
       Item(<<"MODEL", "CODE">>, "convert_to_string"),
       Item(<<"MODEL", "NAME">>, "convert_to_string"),
       Item(<<"LINE", "CODE">>, "convert_to_string"),
       Item(<<"LINE", "NAME">>, "convert_to_string"),
       Item(<<"WORKSHOP", "CODE">>, "convert_to_string"),
       Item(<<"WORKSHOP", "NAME">>, "convert_to_string"),
       Item(<<"PART", "PER", "BOX">>, "convert_to_int64"),
       Item(<<"BOX", "NUMBER">>, "convert_to_string"),
       Item(<<"BOX", "TYPE">>, "convert_to_string"),
       Item(<<"BOX", "WEIGHT", "KG">>, "convert_to_float"),
       Item(<<"BOX", "LENGTH", "MM">>, "convert_to_int64"),
       Item(<<"BOX", "WIDTH", "MM">>, "convert_to_int64"),
       Item(<<"BOX", "HEIGHT", "MM">>, "convert_to_int64"),
       Item(<<"BOX", "VOL", "M3">>, "convert_to_float"),
       Item(<<"BOX", "AREA", "M2">>, "convert_to_float"),
       Item(<<"BOX", "STACKING">>, "convert_to_int64"),
       Item(<<"BOX", "PER", "PALLET">>, "convert_to_int64"),
       Item(<<"PALLET", "NUMBER">>, "convert_to_string"),
       Item(<<"PALLET", "TYPE">>, "convert_to_string"),
       Item(<<"PALLET", "WEIGHT", "KG">>, "convert_to_float"),
       Item(<<"PALLET", "LENGTH", "MM">>, "convert_to_int64"),
       Item(<<"PALLET", "WIDTH", "MM">>, "convert_to_int64"),
       Item(<<"PALLET", "HEIGHT", "MM">>, "convert_to_int64"),
       Item(<<"PALLET", "VOL", "M3">>, "convert_to_float"),
       Item(<<"PALLET", "AREA", "M2">>, "convert_to_float"),
       Item(<<"PALLET", "STACKING">>, "convert_to_int64"),
       Item(<<"SUPPLIER", "NAME">>, "clean_text_column"),
       Item(<<"LOCATION">>, "convert_to_string"),
       Item(<<"CITY">>, "convert_to_string"),
       Item(<<"STREET">>, "convert_to_string"),
       Item(<<"BUILDING">>, "convert_to_string"),
       Item(<<"LOCALIZATION">>, "convert_to_string") >>

supplier_df_transformations ==
    << Item(<<"SUPPLIER", "NAME">>, "clean_text_column"),
       Item(<<"LOCATION">>, "convert_to_string"),
       Item(<<"CITY">>, "convert_to_string"),
       Item(<<"STREET">>, "convert_to_string"),
       Item(<<"BUILDING">>, "convert_to_string"),
       Item(<<"LOCALIZATION">>, "convert_to_string") >>

part_df_transformations ==
    << Item(<<"PART", "NUMBER">>, "convert_to_string"),
       Item(<<"PART", "NAME">>, "clean_text_column"),
       Item(<<"PART", "WEIGHT", "KG">>, "convert_to_float") >>

\* the mapping of box_df with the weight coerced to an integer
box_df_transformations_weight_as_int ==
    << Item(<<"BOX", "NUMBER">>, "convert_to_string"),
       Item(<<"BOX", "TYPE">>, "convert_to_string"),
       Item(<<"BOX", "WEIGHT", "KG">>, "convert_to_int64"),
       Item(<<"BOX", "LENGTH", "MM">>, "convert_to_int64"),
       Item(<<"BOX", "WIDTH", "MM">>, "convert_to_int64"),
       Item(<<"BOX", "HEIGHT", "MM">>, "convert_to_int64"),
       Item(<<"BOX", "VOL", "M3">>, "convert_to_float"),
       Item(<<"BOX", "AREA", "M2">>, "convert_to_float"),
       Item(<<"BOX", "STACKING">>, "convert_to_int64") >>

box_df_transformations ==
    << Item(<<"BOX", "NUMBER">>, "convert_to_string"),
       Item(<<"BOX", "TYPE">>, "convert_to_string"),
       Item(<<"BOX", "WEIGHT", "KG">>, "convert_to_float"),
       Item(<<"BOX", "LENGTH", "MM">>, "convert_to_int64"),
       Item(<<"BOX", "WIDTH", "MM">>, "convert_to_int64"),
       Item(<<"BOX", "HEIGHT", "MM">>, "convert_to_int64"),
       Item(<<"BOX", "VOL", "M3">>, "convert_to_float"),
       Item(<<"BOX", "AREA", "M2">>, "convert_to_float"),
       Item(<<"BOX", "STACKING">>, "convert_to_int64") >>

pallet_df_transformations ==
    << Item(<<"PALLET", "NUMBER">>, "convert_to_string"),
       Item(<<"PALLET", "TYPE">>, "convert_to_string"),
       Item(<<"PALLET", "WEIGHT", "KG">>, "convert_to_float"),
       Item(<<"PALLET", "LENGTH", "MM">>, "convert_to_int64"),
       Item(<<"PALLET", "WIDTH", "MM">>, "convert_to_int64"),
       Item(<<"PALLET", "HEIGHT", "MM">>, "convert_to_int64"),
       Item(<<"PALLET", "VOL", "M3">>, "convert_to_float"),
       Item(<<"PALLET", "AREA", "M2">>, "convert_to_float"),
       Item(<<"PALLET", "STACKING">>, "convert_to_int64") >>

model_df_transformations ==
    << Item(<<"MODEL", "CODE">>, "convert_to_string"),
       Item(<<"MODEL", "NAME">>, "convert_to_string") >>

workshop_df_transformations ==
    << Item(<<"WORKSHOP", "CODE">>, "convert_to_string"),
       Item(<<"WORKSHOP", "NAME">>, "convert_to_string") >>

line_df_transformations ==
    << Item(<<"LINE", "CODE">>, "convert_to_string"),
       Item(<<"LINE", "NAME">>, "convert_to_string") >>

TableJob(df_name, mapping, result_key) ==
    [df_name |-> df_name, transformations |-> mapping, result_key |-> result_key]

dataframes_to_process ==
    << TableJob("main_df", main_df_transformations, "transformed_main_df"),
       TableJob("supplier_df", supplier_df_transformations, "transformed_supplier_df"),
       TableJob("part_df", part_df_transformations, "transformed_part_df"),
       TableJob("box_df", box_df_transformations, "transformed_box_df"),
       TableJob("pallet_df", pallet_df_transformations, "transformed_pallet_df"),
       TableJob("model_df", model_df_transformations, "transformed_model_df"),
       TableJob("workshop_df", workshop_df_transformations, "transformed_workshop_df"),
       TableJob("line_df", line_df_transformations, "transformed_line_df") >>

\* a frame of one row from its columns <<name, dtype, cell>>
OneRow(cs) ==
    LET at(c) == CHOOSE i \in 1..Len(cs) : cs[i][1] = c
        names == {cs[i][1] : i \in 1..Len(cs)}
    IN Frame([c \in names |-> cs[at(c)][2]], << [c \in names |-> cs[at(c)][3]] >>)

\* the tables extractor() returns, when it returns them; the area of
\* pallet_df is a column that no cast accepts
ExtractedFrame(df_name) ==
    CASE df_name = "main_df" ->
            OneRow(<< <<<<"PART", "NUMBER">>, "Int64", Val(7)>>,
                      <<<<"BOX", "WEIGHT", "KG">>, "Utf8", Val(<<"1", ".", "2", "3", "9">>)>>,
                      <<<<"BOX", "LENGTH", "MM">>, "Float64", Val(1700)>> >>)
      [] df_name = "supplier_df" ->
            OneRow(<< <<<<"SUPPLIER", "NAME">>, "Utf8", Val(<<"a", ",", "B">>)>> >>)
      [] df_name = "part_df" ->
            OneRow(<< <<<<"PART", "NUMBER">>, "Int64", Val(7)>>,
                      <<<<"PART", "WEIGHT", "KG">>, "Int64", Val(12)>> >>)
      [] df_name = "box_df" ->
            OneRow(<< <<<<"BOX", "NUMBER">>, "Utf8", Val(<<"0", "1">>)>>,
                      <<<<"BOX", "HEIGHT", "MM">>, "Utf8", Val(<<"0", "1">>)>> >>)
      [] df_name = "pallet_df" ->
            OneRow(<< <<<<"PALLET", "AREA", "M2">>, "List", Val(<<1>>)>> >>)
      [] df_name = "model_df" ->
            OneRow(<< <<<<"MODEL", "CODE">>, "Int64", Val(12)>> >>)
      [] df_name = "workshop_df" ->
            OneRow(<< <<<<"WORKSHOP", "CODE">>, "Utf8", Val(<<"0", "1">>)>> >>)
      [] OTHER ->
            OneRow(<< <<<<"LINE", "NAME">>, "Float64", Val(1239)>> >>)

DfNames == {dataframes_to_process[i].df_name : i \in 1..Len(dataframes_to_process)}

\* what extractor() may return: any of the tables, main_df or box_df
\* possibly without rows
ExtractorOutputs ==
    {[n \in present |->
         IF n \in empty THEN Frame(ExtractedFrame(n).cols, <<>>) ELSE ExtractedFrame(n)] :
        present \in SUBSET DfNames, empty \in {{}, {"main_df"}, {"box_df"}}}

\* lines 404-417: extractor() returns the tables, or raises and transformer()
\* re-raises (lines 575-581)
extractor ==
    /\ pc = "transformer"
    /\ \/ /\ common_df_dict' \in ExtractorOutputs
          /\ pc' = "transform_table"
          /\ UNCHANGED <<exc, raised>>
       \/ /\ Throw(Raise("Exception", "extractor() failed"))
          /\ pc' = "transformer_raised"
          /\ UNCHANGED common_df_dict
    /\ transformed_df_dict' = <<>>
    /\ idx' = 1
    /\ UNCHANGED <<args, results, phase_results, fk_role, db, calls, handed, extracted,
                   faults, input_df, transformations, col_idx, result_df, applied,
                   connector_vars, defaults_vars>>

\* the loop of lines 532-567 moves to the next table, or transformer()
\* returns transformed_df_dict
next_table ==
    /\ idx' = idx + 1
    /\ pc' = IF idx = Len(dataframes_to_process) THEN "transformer_returned"
             ELSE "transform_table"

\* lines 532-545: one table is missing and skipped, empty and stored as it is,
\* or handed to apply_transformations
transform_table ==
    /\ pc = "transform_table"
    /\ LET job == dataframes_to_process[idx]
       IN IF job.df_name \notin DOMAIN common_df_dict
          THEN /\ next_table
               /\ UNCHANGED <<transformed_df_dict, input_df, transformations, col_idx, result_df>>
          ELSE IF is_empty(common_df_dict[job.df_name])
          THEN /\ transformed_df_dict' =
                      Put(transformed_df_dict, job.result_key, common_df_dict[job.df_name])
               /\ next_table
               /\ UNCHANGED <<input_df, transformations, col_idx, result_df>>
          ELSE /\ pc' = "apply_transformations"
               /\ input_df' = common_df_dict[job.df_name]
               /\ transformations' = job.transformations
               /\ col_idx' = 1
               /\ result_df' = common_df_dict[job.df_name]
               /\ UNCHANGED <<transformed_df_dict, idx>>
    /\ UNCHANGED <<args, results, phase_results, exc, fk_role, db, calls, handed, extracted,
                   faults, raised, common_df_dict, applied, connector_vars, defaults_vars>>

\* lines 549-567: an exception leaves apply_transformations; the handler of
\* the loop stores the original table and the loop goes on.  Where in
\* apply_transformations it is raised makes no difference to what is stored.
transform_table_raises ==
    /\ pc = "apply_transformations"
    /\ common_df_dict # <<>>
    /\ col_idx = 1
    /\ faults < MaxFaults
    /\ faults' = faults + 1
    /\ transformed_df_dict' =
           Put(transformed_df_dict, dataframes_to_process[idx].result_key,
               common_df_dict[dataframes_to_process[idx].df_name])
    /\ next_table
    /\ UNCHANGED <<args, results, phase_results, exc, fk_role, db, calls, handed, extracted,
                   raised, common_df_dict, input_df, transformations, col_idx,
                   result_df, applied, connector_vars, defaults_vars>>

\* the result stored under the name of the input table
store_transformed_under_df_name ==
    /\ pc = "transformed"
    /\ transformed_df_dict' =
           Put(transformed_df_dict, dataframes_to_process[idx].df_name, result_df)
    /\ next_table
    /\ UNCHANGED <<args, results, phase_results, exc, fk_role, db, calls, handed, extracted,
                   faults, raised, common_df_dict, input_df, transformations, col_idx,
                   result_df, applied, connector_vars, defaults_vars>>

\* lines 545-547: the frame apply_transformations returned is stored
store_transformed ==
    /\ pc = "transformed"
    /\ transformed_df_dict' =
           Put(transformed_df_dict, dataframes_to_process[idx].result_key, result_df)
    /\ next_table
    /\ UNCHANGED <<args, results, phase_results, exc, fk_role, db, calls, handed, extracted,
                   faults, raised, common_df_dict, input_df, transformations, col_idx,
                   result_df, applied, connector_vars, defaults_vars>>

\* no call of load_transformed_data is under way
LoaderIdle ==
    /\ args = [given |-> "none", dict |-> NoDict, truncate_before_load |-> FALSE,
               use_transformer |-> TRUE]
    /\ transformed_df_dict = <<>>
    /\ results = InitResults
    /\ phase_results = <<>>
    /\ idx = 1
    /\ exc = NoExc
    /\ fk_role = "origin"
    /\ db = InitDb(0)
    /\ calls = <<>>
    /\ handed = NoHanded
    /\ extracted = NoExtract
    /\ faults = 0
    /\ raised = <<>>

\* transformer() is called
InitTransformer ==
    /\ LoaderIdle
    /\ DefaultsIdle
    /\ ConnectorIdle
    /\ TransformerIdle
    /\ pc = "transformer"

NextTransformer ==
    \/ extractor
    \/ transform_table
    \/ apply_transformations
    \/ transform_table_raises
    \/ store_transformed

\* a run of transformer()
SpecTransformer == InitTransformer /\ [][NextTransformer]_vars

\* the cells a generated column of apply_transformations draws from: the
\* floats are 1.239 and 1.7, the strings "1.239", "01", "a,B" and "aB 1"
ApplyCells(dtype) ==
    CASE dtype = "Int64"   -> {NULL, Val(12)}
      [] dtype = "Utf8"    -> {NULL, Val(<<"1", ".", "2", "3", "9">>), Val(<<"0", "1">>),
                               Val(<<"a", ",", "B">>), Val(<<"a", "B", " ", "1">>)}
      [] dtype = "Float64" -> {NULL, Val(1239), Val(1700)}
      [] OTHER             -> {NULL, Val(<<1>>)}

\* apply_transformations(df, transformations) is entered: result_df = df.clone()
apply_transformations_called(df, mapping) ==
    /\ pc = "apply_transformations"
    /\ input_df = df
    /\ transformations = mapping
    /\ col_idx = 1
    /\ result_df = df
    /\ applied = <<>>

\* a frame of at most MaxRows rows over PART_NAME, of any dtype, and
\* SUPPLIER_NAME, a string column; a mapping that names both columns, in
\* either order, and may name BOX_TYPE, a column the frame does not have
InitApply ==
    /\ LoaderIdle
    /\ DefaultsIdle
    /\ ConnectorIdle
    /\ common_df_dict = <<>>
    /\ \E da \in {"Int64", "Utf8", "Float64", "List"}, fa \in Functions, fb \in Functions,
          swap \in BOOLEAN, absent \in BOOLEAN :
          \E k \in 0..MaxRows :
             \E r \in [1..k -> ApplyCells(da)] :
                LET df == Frame([c \in {<<"PART", "NAME">>, <<"SUPPLIER", "NAME">>} |->
                                    IF c = <<"PART", "NAME">> THEN da ELSE "Utf8"],
                                [i \in 1..k |->
                                    [c \in {<<"PART", "NAME">>, <<"SUPPLIER", "NAME">>} |->
                                        IF c = <<"PART", "NAME">> THEN r[i]
                                        ELSE Val(<<"b", "_", "A">>)]])
                    a == [col |-> <<"PART", "NAME">>, func |-> fa]
                    b == [col |-> <<"SUPPLIER", "NAME">>, func |-> fb]
                    both == IF swap THEN <<b, a>> ELSE <<a, b>>
                IN apply_transformations_called(
                       df,
                       IF absent
                       THEN << [col |-> <<"BOX", "TYPE">>, func |-> "convert_to_string"] >> \o both
                       ELSE both)

NextApply == apply_transformations

\* apply_transformations on generated frames and mappings
SpecApply == InitApply /\ [][NextApply]_vars

Coercions == {"convert_to_int64", "convert_to_float"}

\* the dtype a coercion gives the column
Target(func) == IF func = "convert_to_int64" THEN "Int64" ELSE "Float64"

\* the caller hands the frame apply_transformations returned to a second
\* call with the same mapping
apply_transformations_again ==
    /\ pc = "transformed"
    /\ Len(applied) = Len(transformations)
    /\ pc' = "apply_transformations"
    /\ input_df' = result_df
    /\ col_idx' = 1
    /\ UNCHANGED <<args, transformed_df_dict, results, phase_results, idx, exc, fk_role, db,
                   calls, handed, extracted, faults, raised,
                   common_df_dict, transformations, result_df, applied, connector_vars, defaults_vars>>

\* a coercion is applied to the column BOX_WEIGHT_KG of a frame of at most
\* MaxRows rows, of any dtype
InitCoerce ==
    /\ LoaderIdle
    /\ DefaultsIdle
    /\ ConnectorIdle
    /\ common_df_dict = <<>>
    /\ \E da \in {"Int64", "Utf8", "Float64", "List"}, f \in Coercions :
          \E k \in 0..MaxRows :
             \E cells \in [1..k -> ApplyCells(da)] :
                apply_transformations_called(
                    Frame([c \in {<<"BOX", "WEIGHT", "KG">>} |-> da],
                          [i \in 1..k |-> [c \in {<<"BOX", "WEIGHT", "KG">>} |-> cells[i]]]),
                    << [col |-> <<"BOX", "WEIGHT", "KG">>, func |-> f] >>)

NextCoerce ==
    \/ apply_transformations
    \/ apply_transformations_again

\* convert_to_int64 and convert_to_float applied a second time to their result
SpecCoerce == InitCoerce /\ [][NextCoerce]_vars

----------------------------------------------------------------------------
(* connect_to_database of connector.py: the loop over range(max_retries) *)

\* the exceptions a call of an attempt may raise, by the handler they reach
Raisable == {"OperationalError", "SQLAlchemyError", "Exception", "BaseException"}

\* What happens in one attempt (lines 555-591): whether engine.connect() of
\* the test has returned a connection, what SELECT 1 gave, what
\* check_database_health returned, and what a call of the attempt raised:
\* before the test connection is opened, in the test query, between the query
\* and the health check (create_database_tables), or in the health check.
AttemptRun(opened, query, health, raises) ==
    [opened |-> opened, query |-> query, health |-> health, raises |-> raises]

AttemptRuns ==
    {AttemptRun(FALSE, "none", "none", e) : e \in Raisable}
    \cup {AttemptRun(TRUE, "raised", "none", e) : e \in Raisable}
    \cup {AttemptRun(TRUE, "other", "none", "none")}
    \cup {AttemptRun(TRUE, "1", "none", e) : e \in Raisable}
    \cup {AttemptRun(TRUE, "1", "raised", e) : e \in Raisable}
    \cup {AttemptRun(TRUE, "1", h, "none") : h \in {"True", "False"}}

\* how the attempt ends: lines 576 and 588-590 return the engine when the
\* query gave 1 and the health check True; an attempt that raises nothing and
\* returns nothing leaves the try statement
Outcome(run) ==
    IF run.raises # "none" THEN run.raises
    ELSE IF run.query = "1" /\ run.health = "True" THEN "healthy"
    ELSE "unhealthy"

\* the test connection closed only when the attempt raises nothing
closed_unless_raised(run) == run.opened /\ run.raises = "none"

\* lines 591-593: finally: if connection: connection.close()
closed_in_finally(run) == run.opened

\* what the last attempt raises for the exception it caught (lines 604-622)
Reraised(out) ==
    IF out = "OperationalError"
    THEN Raise("Exception", "Failed to connect to database after all attempts")
    ELSE Raise("Exception", out)

\* lines 555-622: the body of the loop.  A failure that raises is followed by
\* the sleep when another turn is left and is fatal when none is; an attempt
\* that raises nothing and returns nothing goes on to the next turn at once.
attempt_body ==
    \E run \in AttemptRuns :
       LET out == Outcome(run)
       IN /\ attempts' = Append(attempts, out)
          /\ connections' = Append(connections,
                                   run @@ [closed |-> closed_in_finally(run)])
          /\ CASE out = "healthy" ->
                    /\ engine' = "engine"
                    /\ pc' = "connected"
                    /\ UNCHANGED <<attempt, exc, raised>>
               [] out = "unhealthy" ->
                    /\ attempt' = attempt + 1
                    /\ UNCHANGED <<pc, engine, exc, raised>>
               [] out = "BaseException" ->
                    /\ Throw(Raise("BaseException", "connect"))
                    /\ pc' = "connect_raised"
                    /\ UNCHANGED <<attempt, engine>>
               [] OTHER ->
                    IF attempt < max_retries - 1
                    THEN /\ pc' = "sleep"
                         /\ UNCHANGED <<attempt, engine, exc, raised>>
                    ELSE /\ Throw(Reraised(out))
                         /\ pc' = "connect_raised"
                         /\ UNCHANGED <<attempt, engine>>

\* the loop with one turn more than max_retries
connect_attempt_once_more ==
    /\ pc = "connect"
    /\ attempt <= max_retries
    /\ attempt_body
    /\ UNCHANGED <<args, transformed_df_dict, results, phase_results, idx, fk_role, db,
                   calls, handed, extracted, faults, max_retries, sleeps, transformer_vars,
                   defaults_vars>>

\* line 554: one turn of the loop over range(max_retries)
connect_attempt ==
    /\ pc = "connect"
    /\ attempt < max_retries
    /\ attempt_body
    /\ UNCHANGED <<args, transformed_df_dict, results, phase_results, idx, fk_role, db,
                   calls, handed, extracted, faults, max_retries, sleeps, transformer_vars,
                   defaults_vars>>

\* lines 603, 613, 619: time.sleep(retry_delay) ends and the loop goes on
sleep_retry_delay ==
    /\ pc = "sleep"
    /\ sleeps' = sleeps + 1
    /\ attempt' = attempt + 1
    /\ pc' = "connect"
    /\ UNCHANGED <<args, transformed_df_dict, results, phase_results, idx, exc, fk_role, db,
                   calls, handed, extracted, faults, raised, max_retries, attempts, engine,
                   connections, transformer_vars, defaults_vars>>

\* line 623: the loop has ended without a return
raise_connection_error ==
    /\ pc = "connect"
    /\ attempt >= max_retries
    /\ Throw(Raise("Exception", "Failed to connect to database"))
    /\ pc' = "connect_raised"
    /\ UNCHANGED <<args, transformed_df_dict, results, phase_results, idx, fk_role, db,
                   calls, handed, extracted, faults, max_retries, attempt, attempts, engine,
                   sleeps, connections, transformer_vars, defaults_vars>>

\* connect_to_database(max_retries) has reached its loop
InitConnect ==
    /\ LoaderIdle
    /\ DefaultsIdle
    /\ TransformerIdle
    /\ pc = "connect"
    /\ max_retries \in -1..MaxRetries
    /\ attempt = 0
    /\ attempts = <<>>
    /\ engine = "None"
    /\ sleeps = 0
    /\ connections = <<>>

NextConnect ==
    \/ connect_attempt
    \/ sleep_retry_delay
    \/ raise_connection_error

\* the runs of connect_to_database
SpecConnect == InitConnect /\ [][NextConnect]_vars

\* every call an attempt makes ends (connect_timeout bounds the connection)
\* and every sleep ends: a step that can be taken is taken
FairSpecConnect == SpecConnect /\ WF_vars(NextConnect)

----------------------------------------------------------------------------
(* The column defaults of database.py: BOX_NUMBER and PALLET_NUMBER *)

\* f"{prefix} {length}-{width}-{height}"
NumberFormat(prefix, length, width, height) ==
    <<prefix, " ">> \o IntToDigits(length) \o <<"-">> \o IntToDigits(width)
        \o <<"-">> \o IntToDigits(height)

\* generate_box_number with the two prefixes exchanged
generate_box_number_swapped(params) ==
    NumberFormat(IF params["BOX_TYPE"] = "non-returnable" THEN "B" ELSE "A",
                 params["BOX_LENGTH_MM"], params["BOX_WIDTH_MM"], params["BOX_HEIGHT_MM"])

\* generate_box_number(context), params = context.get_current_parameters()
generate_box_number(params) ==
    NumberFormat(IF params["BOX_TYPE"] = "non-returnable" THEN "A" ELSE "B",
                 params["BOX_LENGTH_MM"], params["BOX_WIDTH_MM"], params["BOX_HEIGHT_MM"])

\* generate_pallet_number(context)
generate_pallet_number(params) ==
    NumberFormat(IF params["PALLET_TYPE"] = "non-returnable" THEN "A" ELSE "B",
                 params["PALLET_LENGTH_MM"], params["PALLET_WIDTH_MM"],
                 params["PALLET_HEIGHT_MM"])

\* the values of packaging_type_enum, and the null a row may have for it
PackagingTypes == {"returnable", "non-returnable", "None"}

\* the dimensions of the generated rows, in millimetres
Dimensions == {0, 7, 560, 1340}

\* the parameters of a row of box_data or pallet_data
RowParams(kind, type, length, width, height) ==
    IF kind = "box"
    THEN [kind |-> kind, BOX_TYPE |-> type, BOX_LENGTH_MM |-> length,
          BOX_WIDTH_MM |-> width, BOX_HEIGHT_MM |-> height]
    ELSE [kind |-> kind, PALLET_TYPE |-> type, PALLET_LENGTH_MM |-> length,
          PALLET_WIDTH_MM |-> width, PALLET_HEIGHT_MM |-> height]

\* the default of the number column is computed for the row
generate_number ==
    /\ pc = "default"
    /\ generated' = Append(generated,
                           IF context_params.kind = "box"
                           THEN generate_box_number(context_params)
                           ELSE generate_pallet_number(context_params))
    /\ pc' = IF Len(generated) = 1 THEN "defaults_done" ELSE pc
    /\ UNCHANGED <<args, transformed_df_dict, results, phase_results, idx, exc, fk_role, db,
                   calls, handed, extracted, faults, raised, context_params,
                   transformer_vars, connector_vars>>

\* a row of box_data or pallet_data whose number is computed, and computed again
InitDefaults ==
    /\ LoaderIdle
    /\ TransformerIdle
    /\ ConnectorIdle
    /\ pc = "default"
    /\ generated = <<>>
    /\ \E kind \in {"box", "pallet"}, type \in PackagingTypes,
          length \in Dimensions, width \in Dimensions, height \in Dimensions :
          context_params = RowParams(kind, type, length, width, height)

NextDefaults == generate_number

\* the packaging numbers of generated rows
SpecDefaults == InitDefaults /\ [][NextDefaults]_vars

----------------------------------------------------------------------------
(* The junction and breakpoint derivations on generated main tables *)

DTypes == {"Int64", "Utf8", "Float64"}

\* the cells a generated column of a dtype draws from: the floats are 1.2 and 1.7
Cells(dtype) ==
    CASE dtype = "Int64"   -> {NULL, Val(1), Val(2)}
      [] dtype = "Utf8"    -> {NULL, Val(<<"1">>), Val(<<"0", "1">>), Val(<<"P", "1">>)}
      [] dtype = "Float64" -> {Val(1200), Val(1700)}

\* the rows of a generated main table over two key columns a, b of dtypes da, db_
PairRows(a, da, b, db_) ==
    {[c \in {a, b} |-> IF c = a THEN x ELSE y] : x \in Cells(da), y \in Cells(db_)}

\* the rows of a generated main table over the three breakpoint columns; the
\* two part columns are of one dtype, as the identifiers of one table are
BreakpointRows ==
    {[c \in Range(breakpoint_cols) |->
         CASE c = "breakpoint_date" -> d
           [] c = "old_part_id"     -> o
           [] OTHER                 -> n] :
        d \in {NULL, Val(7)}, o \in Cells("Int64"), n \in Cells("Int64")}

\* a call of a phase function on the table set dict with truncate flag t, on a
\* database that holds MaxPre rows per table
InitPhaseOn(position, dict, t) ==
    /\ pc = position
    /\ args = [given |-> "dict", dict |-> dict,
               truncate_before_load |-> t, use_transformer |-> TRUE]
    /\ transformed_df_dict = args.dict
    /\ results = InitResults
    /\ phase_results = <<>>
    /\ idx = 1
    /\ exc = NoExc
    /\ fk_role = "replica"
    /\ db = InitDb(MaxPre)
    /\ calls = <<>>
    /\ handed = NoHanded
    /\ extracted = NoExtract
    /\ faults = 0
    /\ raised = <<>>
    /\ OutsideLoaderIdle

\* a call of a phase function on main table m
InitPhase(position, m, t) ==
    InitPhaseOn(position, [k \in {"transformed_main_df"} |-> m], t)

\* the main tables: at most MaxRows rows over the key columns of a junction
\* definition, of any dtypes, and the two sample tables
InitJunction ==
    \E t \in BOOLEAN :
        \/ \E j \in Range(junction_definitions), da \in DTypes, db_ \in DTypes :
              \E k \in 0..MaxRows :
                 \E r \in [1..k -> PairRows(j.fks[1], da, j.fks[2], db_)] :
                    InitPhase("junction",
                              Frame([c \in Range(j.fks) |-> IF c = j.fks[1] THEN da ELSE db_], r),
                              t)
        \/ \E m \in {MainStr, MainInt} : InitPhase("junction", m, t)

NextJunction == load_all_junction_tables

\* load_all_junction_tables(engine, main_df, truncate) on generated main tables
SpecJunction == InitJunction /\ [][NextJunction]_vars

\* the main tables: at most MaxRows rows over the three breakpoint columns,
\* and the two sample tables
InitBreakpoint ==
    \E t \in BOOLEAN :
        \/ \E k \in 0..MaxRows :
              \E r \in [1..k -> BreakpointRows] :
                 InitPhase("breakpoint", Frame([c \in Range(breakpoint_cols) |-> "Int64"], r), t)
        \/ \E m \in {MainInt, MainNoKeys} : InitPhase("breakpoint", m, t)

NextBreakpoint == load_breakpoint_data \/ load_part_to_breakpoint

\* load_breakpoint_data(engine, main_df, truncate) on generated main tables
SpecBreakpoint == InitBreakpoint /\ [][NextBreakpoint]_vars

\* the rows of a generated entity table with primary key pk
EntityRows(pk) ==
    {[c \in {pk, "tag"} |-> IF c = pk THEN k ELSE g] :
        k \in Cells("Int64"), g \in {Val(1), Val(2)}}

\* the table sets: one entity table of at most MaxRows rows, the others absent
InitEntity ==
    \E t \in BOOLEAN, e \in Range(entity_mapping) :
        \E k \in 0..MaxRows :
           \E r \in [1..k -> EntityRows(e.pk)] :
              InitPhaseOn("entity",
                          [x \in {e.df_key} |-> Frame([c \in {e.pk, "tag"} |-> "Int64"], r)],
                          t)

NextEntity == load_all_entity_tables

\* load_all_entity_tables(engine, transformed_df_dict, truncate) on generated tables
SpecEntity == InitEntity /\ [][NextEntity]_vars

----------------------------------------------------------------------------
(* Properties of the run *)

Terminal == pc \in {"returned", "propagated"}

CountCalls(name) == Cardinality({i \in 1..Len(calls) : calls[i] = name})

LoadingPositions == {"entity", "junction", "breakpoint"}

RestoreFailure == Raise("Exception", "enable_foreign_keys failed")

\* C1: in every run of load_transformed_data, enable_foreign_keys is invoked
\* exactly once, also when a loading phase raises partway through.
C1_RestoredExactlyOnce ==
    Terminal => CountCalls("enable_foreign_keys") = 1

\* C2: in a run that invoked disable_foreign_keys, enable_foreign_keys is
\* invoked at least once after it before the run ends, whichever phase raises.
C2_RestoredAfterRelaxed ==
    Terminal =>
        \A i \in 1..Len(calls) :
            calls[i] = "disable_foreign_keys" =>
                \E j \in (i + 1)..Len(calls) : calls[j] = "enable_foreign_keys"

\* a run in which the junction phase raised an exception that is no Exception
\* ends with the constraints relaxed and restored
C2_Witness ==
    /\ pc = "propagated"
    /\ raised = << Raise("BaseException", "junction") >>
    /\ CountCalls("disable_foreign_keys") = 1
    /\ CountCalls("enable_foreign_keys") = 1

\* C3: enable_foreign_keys is never invoked in a run in which
\* disable_foreign_keys was not invoked before it.
C3_NoRestoreWithoutRelax ==
    \A j \in 1..Len(calls) :
        calls[j] = "enable_foreign_keys" =>
            \E i \in 1..(j - 1) : calls[i] = "disable_foreign_keys"

\* C4: when a loading phase raises E and the restoration that follows fails
\* too, the `error` of the returned result carries E's message.
C4_OriginalErrorNotMasked ==
    ( /\ pc = "returned"
      /\ Len(raised) = 2
      /\ raised[1].msg \in LoadingPositions
      /\ raised[2] = RestoreFailure )
    => results.error = raised[1].msg

\* a failure of the kinds the loader classifies happened in this run: the
\* input failed validation, a database operation failed, or an Exception was raised
ClassifiedFailure ==
    \/ pc \notin {"start", "validate"} /\ args.given # "other"
       /\ DOMAIN transformed_df_dict # {}
       /\ ~validate_transformed_data(transformed_df_dict)
    \/ faults > 0
    \/ \E i \in 1..Len(raised) : raised[i].kind = "Exception"

OnlyExceptions == \A i \in 1..Len(raised) : raised[i].kind = "Exception"

\* C5: for every failure it can classify, load_transformed_data returns the
\* result record with success = false and the failure captured in `error`.
C5_FailuresCaptured ==
    (Terminal /\ OnlyExceptions /\ ClassifiedFailure) =>
        /\ pc = "returned"
        /\ results.success = FALSE
        /\ results.error # "None"

\* C5 as amended: no Exception leaves load_transformed_data, and the result
\* has success = false and an error message whenever the input failed
\* validation or an Exception was raised into the body of the function.
C5_ExceptionsConverted ==
    /\ pc = "propagated" => exc.kind = "BaseException"
    /\ (pc = "returned" /\ ( \/ results.error = "Data validation failed"
                            \/ \E i \in 1..Len(raised) : raised[i].kind = "Exception" ))
       => /\ results.success = FALSE
          /\ results.error # "None"
    /\ (pc = "returned" /\ DOMAIN transformed_df_dict # {}
          /\ ~validate_transformed_data(transformed_df_dict) /\ raised = <<>>)
       => results.error = "Data validation failed"

\* a failed restoration after a fault-free load is returned as a failure result
C5_Witness ==
    /\ pc = "returned"
    /\ raised = << RestoreFailure >>
    /\ results.error = "enable_foreign_keys failed"
    /\ results.success = FALSE

ProgrammerError ==
    \/ args.given = "other"
    \/ args.given = "none" /\ ~args.use_transformer

\* C6: a call of invalid shape (transformed_df_dict that is no dict, or no data
\* with use_transformer = false) is propagated to the caller.
C6_ProgrammerErrorsFatal ==
    (Terminal /\ ProgrammerError) => pc = "propagated"

\* C7: success = true only if at least one record inserted by this run is
\* counted by the verification step.
C7_SuccessMeansInserted ==
    (pc = "returned" /\ results.success) =>
        \E t \in DOMAIN results.record_counts :
            db[t].new > 0 /\ results.record_counts[t] > 0

----------------------------------------------------------------------------
(* Properties of the junction and breakpoint derivations *)

MainDf == transformed_df_dict["transformed_main_df"]

NoNullKey(records) == \A i \in 1..Len(records) : ~HasNull(records[i])

NoRepeatedKey(records) ==
    \A i \in 1..Len(records) : \A k \in (i + 1)..Len(records) : records[i] # records[k]

\* C8: the rows load_junction_table hands to the bulk insert hold no null key
\* and no key tuple twice, the keys being those inserted (after the cast).
C8_JunctionKeysClean ==
    handed.table \in JunctionTables =>
        NoNullKey(handed.records) /\ NoRepeatedKey(handed.records)

PartToBox == junction_definitions[1]

\* the distinct (part_id, box_id) pairs of the main table without a null
DistinctPairs(main_df) ==
    Range(drop_nulls(select(main_df, Range(PartToBox.fks))).rows)

\* C9: with string part_id and box_id columns the part_to_box load inserts one
\* row per distinct non-null pair and reports that count; (P1,B1), (P1,B1),
\* (P2,B2) give 2.
C9_OneRowPerStringPair ==
    ( /\ pc = "junction" /\ idx = 2 /\ faults = 0
      /\ Range(PartToBox.fks) \subseteq columns(MainDf)
      /\ \A c \in Range(PartToBox.fks) : MainDf.cols[c] = "Utf8" )
    => /\ phase_results["part_to_box"] = Cardinality(DistinctPairs(MainDf))
       /\ db["part_to_box"].new = Cardinality(DistinctPairs(MainDf))
       /\ MainDf = MainStr => phase_results["part_to_box"] = 2

\* the unique triples of the main table without a null
Triples(main_df) ==
    Range(drop_nulls(select(main_df, Range(breakpoint_cols))).rows)

TripleOf(b) ==
    [c \in Range(breakpoint_cols) |->
        CASE c = "breakpoint_date" -> b.breakpoint_date
          [] c = "old_part_id"     -> b.old_part_id
          [] OTHER                 -> b.new_part_id]

\* C10: for a main table with the three breakpoint columns,
\* extract_breakpoint_data emits for each unique non-null triple one breakpoint
\* row identified by its position 1..n, and exactly two part-to-breakpoint rows
\* with that identifier: the old part active before and not after, the new
\* part active after and not before.
C10_TwoRowsPerTriple ==
    ( /\ pc # "breakpoint"
      /\ Range(breakpoint_cols) \subseteq columns(MainDf) )
    => LET bp == extracted.breakpoint_df.rows
           pb == extracted.part_to_breakpoint_df.rows
           T  == Triples(MainDf)
       IN /\ Len(bp) = Cardinality(T)
          /\ {TripleOf(bp[i]) : i \in 1..Len(bp)} = T
          /\ \A i \in 1..Len(bp) : bp[i].breakpoint_id = i
          /\ Len(pb) = 2 * Len(bp)
          /\ \A i \in 1..Len(bp) :
                LET mine == {k \in 1..Len(pb) : pb[k].breakpoint_id = i}
                IN /\ Cardinality(mine) = 2
                   /\ \E k \in mine :
                         pb[k] = [part_id |-> bp[i].old_part_id, breakpoint_id |-> i,
                                  is_active_before_breakpoint |-> TRUE,
                                  is_active_after_breakpoint |-> FALSE]
                   /\ \E k \in mine :
                         pb[k] = [part_id |-> bp[i].new_part_id, breakpoint_id |-> i,
                                  is_active_before_breakpoint |-> FALSE,
                                  is_active_after_breakpoint |-> TRUE]

\* two unique triples were extracted from a main table that repeats one of
\* them, and both breakpoint tables were loaded
C10_Witness ==
    /\ pc = "finally"
    /\ MainDf = MainInt
    /\ Len(extracted.breakpoint_df.rows) = 2
    /\ Len(extracted.part_to_breakpoint_df.rows) = 4
    /\ results.step_results["breakpoint_data"]["part_to_breakpoint"] = 4

----------------------------------------------------------------------------
(* Properties of the entity phase *)

\* the table fails the schema validation of load_entity_table
InvalidEntity(df, pk) ==
    ~is_empty(df) /\ (pk \notin columns(df) \/ null_count(df, pk) > 0)

\* a turn of the loop of load_all_entity_tables is taken
EntityTurn == pc = "entity" /\ pc' \in {"entity", "junction"}

\* C11: a schema validation error on an entity table (primary key column
\* missing, or a null primary key) truncates and inserts nothing for it, is
\* recorded in the result otherwise than the 0 of an empty table, and the loop
\* goes on to the other entity tables.
C11_ValidationErrorReported ==
    [][ LET e == entity_mapping[idx]
        IN ( /\ EntityTurn
             /\ e.df_key \in DOMAIN transformed_df_dict
             /\ InvalidEntity(transformed_df_dict[e.df_key], e.pk) )
           => LET recorded == IF pc' = "junction"
                              THEN results'.step_results["entity_tables"]
                              ELSE phase_results'
              IN /\ db' = db
                 /\ handed' = handed
                 /\ e.table \in DOMAIN recorded
                 /\ recorded[e.table] # 0 \/ results'.error # "None"
                 /\ idx' = idx + 1 \/ pc' = "junction"
      ]_vars

\* the rows of df that are the first, in input order, to carry their primary key
FirstRows(df, pk) ==
    {df.rows[i] : i \in {n \in 1..Len(df.rows) :
                            \A m \in 1..(n - 1) : df.rows[m][pk] # df.rows[n][pk]}}

\* C12: for a valid entity table whose truncate and insert succeed,
\* load_entity_table hands to the insert exactly the first row of each distinct
\* primary-key value, inserts that many rows and records that number.
C12_FirstRowPerKey ==
    [][ LET e == entity_mapping[idx]
        IN ( /\ EntityTurn
             /\ e.df_key \in DOMAIN transformed_df_dict
             /\ ~is_empty(transformed_df_dict[e.df_key])
             /\ ~InvalidEntity(transformed_df_dict[e.df_key], e.pk)
             /\ faults' = faults )
           => LET df == transformed_df_dict[e.df_key]
                  first == FirstRows(df, e.pk)
                  recorded == IF pc' = "junction"
                              THEN results'.step_results["entity_tables"]
                              ELSE phase_results'
                  before == IF args.truncate_before_load THEN 0 ELSE count_rows(db, e.table)
              IN /\ handed'.table = e.table
                 /\ Range(handed'.records) = first
                 /\ Len(handed'.records) = Cardinality(first)
                 /\ recorded[e.table] = Cardinality(first)
                 /\ count_rows(db', e.table) = before + Cardinality(first)
      ]_vars

\* a supplier table of two rows with one key was loaded as its first row
C12_Witness ==
    /\ "transformed_supplier_df" \in DOMAIN transformed_df_dict
    /\ LET df == transformed_df_dict["transformed_supplier_df"]
       IN /\ Len(df.rows) = 2
          /\ df.rows[1] # df.rows[2]
          /\ df.rows[1]["supplier_id"] = df.rows[2]["supplier_id"]
          /\ handed = [table |-> "supplier_data", records |-> << df.rows[1] >>]
    /\ idx > 1
    /\ phase_results["supplier_data"] = 1

\* the entity tables whose key is absent from the table set of the run
MissingEntities == {e \in Range(entity_mapping) : e.df_key \notin DOMAIN transformed_df_dict}

\* C13: an entity table missing from the table set passed to
\* load_transformed_data is no error: the run returns without an error, records
\* a count of zero for it and has an entry for every table that is present.
C13_MissingTableSkipped ==
    ( /\ Terminal
      /\ args.given = "dict"
      /\ "transformed_main_df" \in DOMAIN transformed_df_dict
      /\ MissingEntities # {}
      /\ raised = <<>> )
    => /\ pc = "returned"
       /\ results.error = "None"
       /\ "entity_tables" \in DOMAIN results.step_results
       /\ LET recorded == results.step_results["entity_tables"]
          IN /\ \A e \in MissingEntities :
                   e.table \in DOMAIN recorded /\ recorded[e.table] = 0
             /\ \A e \in Range(entity_mapping) \ MissingEntities :
                   e.table \in DOMAIN recorded

----------------------------------------------------------------------------
(* Properties of the junction phase *)

\* a turn of the loop of load_all_junction_tables, or its early return, is taken
JunctionTurn == pc = "junction" /\ pc' \in {"junction", "breakpoint"}

MissingColumns(j, df) == ~(Range(j.fks) \subseteq columns(df))

\* a junction definition without its source columns is passed over with a
\* recorded zero, the database untouched
SkippedWithZero ==
    LET j == junction_definitions[idx]
        recorded == IF pc' = "breakpoint"
                    THEN results'.step_results["junction_tables"]
                    ELSE phase_results'
    IN /\ db' = db
       /\ handed' = handed
       /\ faults' = faults
       /\ j.table \in DOMAIN recorded
       /\ recorded[j.table] = 0
       /\ idx' = idx + 1 \/ pc' = "breakpoint"

----------------------------------------------------------------------------
(* Properties of a run whose junction phase fails *)

\* the entity phase returned and recorded a loaded table
EntitiesCommitted ==
    /\ "entity_tables" \in DOMAIN results.step_results
    /\ \E t \in DOMAIN results.step_results["entity_tables"] :
          results.step_results["entity_tables"][t] > 0

\* a junction table load threw inside load_all_junction_tables: the table is
\* recorded with 0 although its load, when nothing fails, inserts rows
JunctionLoadThrew ==
    /\ "junction_tables" \in DOMAIN results.step_results
    /\ \E i \in 1..Len(junction_definitions) :
          LET j == junction_definitions[i]
          IN /\ j.table \in DOMAIN results.step_results["junction_tables"]
             /\ results.step_results["junction_tables"][j.table] = 0
             /\ \A r \in load_junction_table(MainDf, j, args.truncate_before_load, "ok") :
                   r.count > 0

\* an Exception left load_all_junction_tables
JunctionPhaseRaised == \E i \in 1..Len(raised) : raised[i] = Raise("Exception", "junction")

Invoked(name) == \E i \in 1..Len(calls) : calls[i] = name

\* C15: in a run whose junction phase throws after entity tables were
\* committed, the returned result reports the entity counts, verification has
\* run and success is computed from its totals, and enable_foreign_keys has
\* been invoked.
C15_JunctionFailureStillVerified ==
    ( /\ Terminal
      /\ EntitiesCommitted
      /\ JunctionLoadThrew \/ JunctionPhaseRaised )
    => /\ pc = "returned"
       /\ Invoked("verify_table_counts")
       /\ results.success = (total_records(results.record_counts) > 0)
       /\ Invoked("enable_foreign_keys")

\* C15 as amended: when a junction table load throws, the phase absorbs it and
\* the run goes on to verification as an error-free run does; when an
\* Exception leaves the junction phase, the result reports the entity counts
\* and the restoration was invoked, but verification has not run.
C15_AbsorbedFailureStillVerified ==
    /\ ( /\ Terminal
         /\ EntitiesCommitted
         /\ JunctionLoadThrew
         /\ raised = <<>> )
       => /\ pc = "returned"
          /\ Invoked("verify_table_counts")
          /\ results.success = (total_records(results.record_counts) > 0)
          /\ results.error = "None"
          /\ Invoked("enable_foreign_keys")
    /\ ( /\ pc = "returned"
         /\ EntitiesCommitted
         /\ JunctionPhaseRaised )
       => /\ Invoked("enable_foreign_keys")
          /\ ~Invoked("verify_table_counts")
          /\ results.record_counts = <<>>
          /\ results.success = FALSE
          /\ results.error # "None"

\* a run whose part_to_box load threw after the entity tables were loaded
\* returned as a success
C15_Witness ==
    /\ pc = "returned"
    /\ EntitiesCommitted
    /\ JunctionLoadThrew
    /\ results.step_results["junction_tables"]["part_to_box"] = 0
    /\ results.step_results["junction_tables"]["part_to_line"] > 0
    /\ raised = <<>>
    /\ results.success

\* df[c]: the dtype and the cells of one column
column(df, c) == [dtype |-> df.cols[c], cells |-> [i \in 1..Len(df.rows) |-> df.rows[i][c]]]

\* the ways a transformation of a column fails: it raises into
\* apply_transformations, or it catches its own error and leaves the column,
\* or replaces it by nulls
FailedHow == {"raised", "unchanged", "nulled"}

\* C16: when apply_transformations has returned, every mapped column that the
\* frame does not have was skipped, every column whose transformation failed
\* holds the values it had before the call, and every other mapped column
\* holds the result of its transformation.
C16_FailedColumnKeepsValues ==
    pc = "transformed" =>
        \A i \in 1..Len(transformations) :
            LET c == transformations[i].col
                f == transformations[i].func
                how == applied[i].how
            IN IF c \notin columns(input_df)
               THEN how = "skipped" /\ c \notin columns(result_df)
               ELSE IF how \in FailedHow
               THEN column(result_df, c) = column(input_df, c)
               ELSE \E r \in Transform(f, input_df, c) :
                       /\ ~r.threw
                       /\ r.how = how
                       /\ column(result_df, c) = column(r.df, c)

\* C19: when apply_transformations has returned and the full chain of
\* clean_text_column failed on a column, the column holds, value by value, the
\* special characters replaced by spaces, the whitespace collapsed and trimmed
\* and the title case of what it held before, and a null is still a null.
C19_FallbackCleansText ==
    pc = "transformed" =>
        \A i \in 1..Len(applied) :
            applied[i].func = "clean_text_column" /\ applied[i].how = "fallback" =>
                LET before == column(input_df, applied[i].col).cells
                    after  == column(result_df, applied[i].col).cells
                IN \A k \in 1..Len(before) :
                      after[k] = IF before[k] = NULL THEN NULL
                                 ELSE Val(to_titlecase(strip_chars(collapse_spaces(
                                              replace_special(before[k][1])))))

\* the second application of a coercion has returned, and the column it was
\* applied to had been coerced by the first: it had the dtype the function gives
CoercedTwice ==
    /\ pc = "transformed"
    /\ Len(applied) = 2
    /\ applied[2].func \in Coercions
    /\ input_df.cols[applied[2].col] = Target(applied[2].func)

\* C18: convert_to_int64, and convert_to_float, applied to a column that it
\* has coerced already returns the frame with every value, nulls included,
\* as it was.
C18_CoercionIdempotent ==
    CoercedTwice => result_df = input_df

C18_Witness ==
    /\ CoercedTwice
    /\ applied[1] = Attempt(<<"BOX", "WEIGHT", "KG">>, "convert_to_float", "converted")
    /\ Len(input_df.rows) = 2
    /\ input_df.rows[1][<<"BOX", "WEIGHT", "KG">>] = Val(1240)
    /\ input_df.rows[2][<<"BOX", "WEIGHT", "KG">>] = NULL
    /\ result_df = input_df

\* the items of the eight mappings
MappedItems ==
    UNION {Range(dataframes_to_process[t].transformations) :
              t \in 1..Len(dataframes_to_process)}

\* name.endswith("_" + "_".join(suffix))
EndsWith(name, suffix) ==
    /\ Len(name) > Len(suffix)
    /\ SubSeq(name, Len(name) - Len(suffix) + 1, Len(name)) = suffix

FloatSuffixes == {<<"WEIGHT", "KG">>, <<"VOL", "M3">>, <<"AREA", "M2">>}

IntSuffixes == {<<"LENGTH", "MM">>, <<"WIDTH", "MM">>, <<"HEIGHT", "MM">>}

\* C17: a column name has one transformation in all the mappings that name
\* it; a name that ends in _WEIGHT_KG, _VOL_M3 or _AREA_M2 has convert_to_float
\* and one that ends in _LENGTH_MM, _WIDTH_MM or _HEIGHT_MM has
\* convert_to_int64; and every transformation that a run of transformer()
\* attempts on a column is the one the mappings give that name.
C17_TransformationByName ==
    /\ \A a \in MappedItems, b \in MappedItems : a.col = b.col => a.func = b.func
    /\ \A a \in MappedItems :
          /\ (\E x \in FloatSuffixes : EndsWith(a.col, x)) => a.func = "convert_to_float"
          /\ (\E x \in IntSuffixes : EndsWith(a.col, x)) => a.func = "convert_to_int64"
    /\ \A i \in 1..Len(applied) : Item(applied[i].col, applied[i].func) \in MappedItems

\* transformer() has returned after BOX_WEIGHT_KG was coerced to float in
\* main_df and found mapped to float, and absent, in box_df
C17_Witness ==
    /\ pc = "transformer_returned"
    /\ \E i \in 1..Len(applied), j \in 1..Len(applied) :
          /\ i < j
          /\ applied[i] = Attempt(<<"BOX", "WEIGHT", "KG">>, "convert_to_float", "converted")
          /\ applied[j] = Attempt(<<"BOX", "WEIGHT", "KG">>, "convert_to_float", "skipped")
    /\ \E i \in 1..Len(applied) :
          applied[i] = Attempt(<<"BOX", "HEIGHT", "MM">>, "convert_to_int64", "converted")

\* connect_to_database has returned or raised
ConnectEnded == pc \in {"connected", "connect_raised"}

\* C20: connect_to_database never makes more attempts than max_retries (none
\* when max_retries is not positive), every run of it ends, and it ends either
\* with the engine returned or with an exception raised.
C20_BoundedAttempts ==
    /\ [](Len(attempts) <= (IF max_retries > 0 THEN max_retries ELSE 0))
    /\ [](ConnectEnded => /\ (pc = "connected") = (engine = "engine" /\ raised = <<>>)
                          /\ (pc = "connect_raised") = (engine = "None" /\ Len(raised) = 1))
    /\ <>ConnectEnded

\* two attempts were allowed and both failed: the second failure is fatal
C20_Witness ==
    /\ pc = "connect_raised"
    /\ max_retries = 2
    /\ attempts = <<"OperationalError", "SQLAlchemyError">>
    /\ raised = << Raise("Exception", "SQLAlchemyError") >>

\* the key a table of the extractor output is returned under
ResultKey(df_name) ==
    dataframes_to_process[CHOOSE i \in 1..Len(dataframes_to_process) :
                              dataframes_to_process[i].df_name = df_name].result_key

\* C21: when transformer() has returned, the keys of its result are the keys
\* transformed_X of the tables X that extractor() returned, they are among the
\* eight transformed_* keys, and the table under transformed_X has as many
\* rows as X.
C21_OneTablePerInput ==
    pc = "transformer_returned" =>
        /\ DOMAIN transformed_df_dict = {ResultKey(n) : n \in DOMAIN common_df_dict}
        /\ DOMAIN transformed_df_dict \subseteq transformer_keys
        /\ \A n \in DOMAIN common_df_dict :
              Len(transformed_df_dict[ResultKey(n)].rows) = Len(common_df_dict[n].rows)

\* transformer() has returned three tables: box_df was empty, the
\* transformation of supplier_df was left by an exception, part_df was
\* transformed
C21_Witness ==
    /\ pc = "transformer_returned"
    /\ DOMAIN common_df_dict = {"box_df", "supplier_df", "part_df"}
    /\ is_empty(common_df_dict["box_df"])
    /\ transformed_df_dict["transformed_supplier_df"] = common_df_dict["supplier_df"]
    /\ transformed_df_dict["transformed_part_df"] # common_df_dict["part_df"]
    /\ \A i \in 1..Len(applied) : applied[i].col # <<"SUPPLIER", "NAME">>

\* the type and the dimensions of the row whose number is computed
RowType == IF context_params.kind = "box" THEN context_params["BOX_TYPE"]
           ELSE context_params["PALLET_TYPE"]

RowDimensions ==
    IF context_params.kind = "box"
    THEN <<context_params["BOX_LENGTH_MM"], context_params["BOX_WIDTH_MM"],
           context_params["BOX_HEIGHT_MM"]>>
    ELSE <<context_params["PALLET_LENGTH_MM"], context_params["PALLET_WIDTH_MM"],
           context_params["PALLET_HEIGHT_MM"]>>

\* s is a decimal numeral without a leading zero, and its value is n
Numeral(s, n) ==
    /\ s # <<>>
    /\ AllDigits(s)
    /\ Len(s) > 1 => s[1] # "0"
    /\ DigitsValue(s) = n

\* s reads "<prefix> <length>-<width>-<height>"
ReadsAs(s, prefix, dims) ==
    /\ Len(s) >= 7
    /\ s[1] = prefix
    /\ s[2] = " "
    /\ \E i \in 4..Len(s), j \in 6..Len(s) :
          /\ i < j
          /\ s[i] = "-" /\ s[j] = "-"
          /\ Numeral(SubSeq(s, 3, i - 1), dims[1])
          /\ Numeral(SubSeq(s, i + 1, j - 1), dims[2])
          /\ Numeral(SubSeq(s, j + 1, Len(s)), dims[3])

\* C22: every packaging number computed for a row of type non-returnable reads
\* "A <length>-<width>-<height>" and for a row of type returnable
\* "B <length>-<width>-<height>", with the dimensions of the row as decimal
\* numerals, and a number computed again for the same row is the same string.
C22_PackagingNumber ==
    /\ \A i \in 1..Len(generated) :
          /\ RowType = "non-returnable" => ReadsAs(generated[i], "A", RowDimensions)
          /\ RowType = "returnable" => ReadsAs(generated[i], "B", RowDimensions)
    /\ \A i \in 1..Len(generated), j \in 1..Len(generated) : generated[i] = generated[j]

\* the number of a non-returnable box of 1340 x 560 x 7 was computed twice
C22_Witness ==
    /\ pc = "defaults_done"
    /\ context_params = RowParams("box", "non-returnable", 1340, 560, 7)
    /\ generated = << <<"A", " ", "1", "3", "4", "0", "-", "5", "6", "0", "-", "7">>,
                      <<"A", " ", "1", "3", "4", "0", "-", "5", "6", "0", "-", "7">> >>

\* the steps of lines 727-761, in the order of the source
StepOrder ==
    <<"disable_foreign_keys", "load_all_entity_tables", "load_all_junction_tables",
      "load_breakpoint_data", "enable_foreign_keys", "verify_table_counts">>

LoadingSteps ==
    {"load_all_entity_tables", "load_all_junction_tables", "load_breakpoint_data"}

C24_CommittedRowsStay ==
    [][\A t \in Tables : db[t].new <= db'[t].new]_vars

\* a run with truncation has returned; supplier_data and part_data hold the
\* rows it committed, part_data was truncated after supplier_data was loaded,
\* and a later operation has failed
C24_Witness ==
    /\ pc = "returned"
    /\ args.truncate_before_load
    /\ db["supplier_data"].new > 0
    /\ db["part_data"].new > 0
    /\ db["part_data"].old = 0
    /\ faults > 0

\* C25: when a run with truncate_before_load has passed the validation of its
\* input and returned with nothing raised and no database operation failed,
\* no table holds a row that was there before the run.
C25_OldRowsNeverSurvive ==
    pc = "returned" /\ args.truncate_before_load /\ results.error = "None"
        /\ raised = <<>> /\ faults = 0
        => \A t \in Tables : db[t].old = 0

\* C26: whenever connect_to_database is about to make an attempt, it has slept
\* once for every attempt made before, and when it has ended it has slept
\* once less than it has made attempts: a sleep lies between every two
\* consecutive attempts and none follows the last.
C26_DelayBetweenAttempts ==
    /\ pc = "connect" /\ attempt < max_retries => sleeps = Len(attempts)
    /\ ConnectEnded /\ attempts # <<>> => sleeps = Len(attempts) - 1

\* the test query of the attempt returned 1 and its health check True
Healthy(c) == c.query = "1" /\ c.health = "True"

\* C30: an engine has been returned only by an attempt whose test query gave 1
\* and whose health check gave True; an attempt whose query or health
\* check failed is counted among the attempts made, which the loop variable
\* follows, and has not returned an engine; and the test connection of every
\* attempt that opened one has been closed.
C30_EngineOnlyWhenHealthy ==
    /\ Len(connections) = Len(attempts)
    /\ engine = "engine" => connections # <<>> /\ Healthy(connections[Len(connections)])
    /\ \A i \in 1..Len(connections) :
          /\ ~Healthy(connections[i]) =>
                /\ ~(engine = "engine" /\ i = Len(connections))
                /\ i <= max_retries
                /\ pc = "connect" => attempt >= i
          /\ connections[i].closed = connections[i].opened

\* the engine was returned by the third attempt, after one whose health check
\* failed and one whose test query raised with the connection open
C30_Witness ==
    /\ pc = "connected"
    /\ engine = "engine"
    /\ Len(connections) = 3
    /\ connections[1].health = "False" /\ connections[1].closed
    /\ connections[2].query = "raised" /\ connections[2].closed
    /\ Healthy(connections[3]) /\ connections[3].closed

\* the table set reached the validation (the shape of the call raised nothing)
\* and the validation refuses it
ValidationFailed ==
    /\ pc # "start"
    /\ raised = <<>>
    /\ ~validate_transformed_data(transformed_df_dict)

\* C27: once the validation has refused the table set, the run has called no
\* operation of the database (no constraint toggle, truncate, insert or
\* count), the tables and the replication role are as they were, and the run
\* returns success = false, error = "Data validation failed", with empty
\* record_counts and step_results.
C27_ValidationFailureTouchesNothing ==
    ValidationFailed =>
        /\ calls = <<>>
        /\ fk_role = "origin"
        /\ \E pre \in {0, MaxPre} : db = InitDb(pre)
        /\ handed = NoHanded
        /\ pc \in {"validate", "returned"}
        /\ pc = "returned" =>
              results = [success |-> FALSE, record_counts |-> <<>>,
                         error |-> "Data validation failed", step_results |-> <<>>]

\* a run whose part table is empty has returned over old rows of the database
C27_Witness ==
    /\ ValidationFailed
    /\ pc = "returned"
    /\ required_keys \subseteq DOMAIN transformed_df_dict
    /\ is_empty(transformed_df_dict["transformed_part_df"])
    /\ ~is_empty(transformed_df_dict["transformed_main_df"])
    /\ db = InitDb(MaxPre)

\* the count step_results reports for table t in phase step
Reported(step, t) == results.step_results[step][t]

\* C28: for every table, the count reported for it in step_results equals the
\* number of rows this run has committed into that table, also when a later
\* insert of the same phase fails.
C28_ReportedCountIsCommitted ==
    \A step \in DOMAIN results.step_results :
       \A t \in DOMAIN results.step_results[step] :
          Reported(step, t) = db[t].new

\* transformer() has supplied the table set of the run, with rows in its main
\* and part tables
TransformerSupplied ==
    /\ pc # "start"
    /\ args.given = "none" /\ args.use_transformer
    /\ DOMAIN transformed_df_dict = {job.result_key : job \in Range(dataframes_to_process)}
    /\ \A i \in 1..Len(critical_keys) : ~is_empty(transformed_df_dict[critical_keys[i]])

\* C29: the table set returned by transformer() with rows in its main and
\* part tables holds every key the validation requires, is accepted by it,
\* and the run goes on to the loading phases instead of returning at the
\* validation.
C29_TransformerOutputAccepted ==
    TransformerSupplied =>
        /\ required_keys \subseteq DOMAIN transformed_df_dict
        /\ validate_transformed_data(transformed_df_dict)
        /\ pc = "returned" => calls # <<>>
====
